---------------------------- MODULE Spec2Model ----------------------------
(***************************************************************************)
(* Krec2MP4: replay of a recorded Kaillera input log (.krec) against the   *)
(* mupen64plus core, with capture of the rendered frames into an FFmpeg    *)
(* pipe.  The module models                                                *)
(*   - krec_parse                 (krec_parser.cpp,  src/unnamed/part_004) *)
(*   - the PIF replay synchronizer (pif_replay.cpp,  src/unnamed/part_006) *)
(*   - the PBO capture pipeline    (frame_capture.cpp, src/unnamed/part_000)*)
(*   - convert_one                 (converter.cpp,   src/unnamed/part_002) *)
(***************************************************************************)
EXTENDS Integers, Sequences, FiniteSets, TLC

VARIABLES
    \* ---- pif_replay.cpp statics
    s_krec,                 \* const KrecData* (NoKrec = nullptr)
    s_input_frame_index,
    s_synced_this_frame,
    s_replay_finished,
    s_cached_input,         \* uint32_t[4]
    s_cached_num_players,
    pif_out,                \* the struct pif buffers as the last callback left them
    \* ---- history of the replay (not program state)
    idxAtReset,             \* s_input_frame_index at the last reset / init
    pollsThisTick,          \* pif_replay_callback calls since the last reset / init
    pif_in,                 \* the struct pif the last callback was called with
    consumed,               \* the Timeline indices read since pif_replay_init, in order
    twin,                   \* history: the same session replayed in a process that ran
                            \* no session before (.after: this session was
                            \* started after one that had read Timeline frames;
                            \* .polled: the callback has run in this session)
    \* ---- krec_parse
    file,                   \* the .krec file handed to krec_parse
    parsed,                 \* what krec_parse returned for it (NotParsed before)
    recorded,               \* history: the records the log was written from
    \* ---- frame_capture.cpp statics
    s_encoder_opened,
    s_captured_frames,
    s_total_frames,
    s_speed_limiter_disabled,
    s_pbo_index,
    s_pbo_initialized,
    s_pbo_has_data,
    pbo,                    \* the two GL pixel-pack buffers: what each holds
    s_staging_buffer,
    s_flipped_buffer,
    s_encode_has_work,
    s_encode_shutdown,
    s_encode_height,
    \* ---- threads
    mainpc,                 \* the emulation thread: where convert_one / the callback is
    wpc,                    \* the encode worker: where encode_worker is
    mutex,                  \* owner of s_encode_mutex while a thread stays inside it
    \* ---- FFmpegEncoder and the files of the session
    enc,                    \* "new", "open" (pipe != nullptr) or "closed"
    encStream,              \* the frames written to the pipe, in order
    lostWrites,             \* write_frame calls made with no open pipe
    tempVideo, tempAudio, outputFile,   \* whether the file exists
    \* ---- convert_one and its environment
    frontend,               \* "gui": progress callback and cancel flag set; "cli": neither
    cancel_flag,            \* g_cancel_flag
    pboAvail,               \* whether init_pbo_functions() finds the GL entry points
    krec,                   \* convert_one's KrecData
    frames_captured,
    audio_bytes,
    result,                 \* "none" while running, then "true" / "false"
    stopRequested,          \* Emulator::stop() was called
    emuShutdowns,           \* calls of Emulator::shutdown()
    \* ---- history of the session (not program state)
    issued,                 \* readbacks issued by frame_capture_callback
    posted,                 \* jobs posted by process_pbo_async
    cbCount,                \* frame callbacks entered
    cancelAtCb,             \* cbCount when the cancel flag became set (0 before)
    cancelSeen,             \* a frame callback observed the cancel flag
    lostPending,            \* a pending capture slot was discarded undrained
    workerStarted,          \* start_encode_thread ran in this session
    mapFailed,              \* some glMapBuffer returned NULL
    emulationRan,           \* emu.execute() was entered
    progressLog,            \* the `current` argument of every progress call
    pp_caller,              \* who runs process_pbo_async / cleanup_pbos: "callback"
                            \* (frame_capture_callback) or "flush" (frame_capture_flush)
    res_size,               \* converter.cpp: config.res_width x config.res_height
    sizeReported,           \* a frame callback has seen positive render dimensions
    s_ff_config,            \* frame_capture.cpp: the size the encoder is configured with
    encOpens,               \* the sizes of the successful FFmpegEncoder::open calls
    coreStarted,            \* the core library is loaded and CoreStartup has run,
                            \* with no CoreShutdown since
    outputHolds,            \* what is at the output path: "none", the "muxed" file or
                            \* the renamed temporary "video"
    openFailed,             \* an FFmpegEncoder::open call has failed
    \* ---- mux_video_audio
    mux_args,               \* audio_freq, audio_bytes, frames_captured, encode_fps
    itsscale,               \* the scale it computed (NoScale before the call)
    \* ---- the vertical flip on bytes
    flip                    \* one frame through the flip loop: its size, the source
                            \* bytes, s_flipped_buffer, the frame written, and the
                            \* frame a second flip gives

replayVars == <<s_krec, s_input_frame_index, s_synced_this_frame, s_replay_finished,
                s_cached_input, s_cached_num_players, pif_out, idxAtReset, pollsThisTick,
                pif_in, consumed, twin>>
parseVars == <<file, parsed, recorded>>
calcVars == <<mux_args, itsscale, flip>>
captureVars == <<s_encoder_opened, s_captured_frames, s_total_frames,
                 s_speed_limiter_disabled, s_pbo_index, s_pbo_initialized, s_pbo_has_data,
                 pbo, s_staging_buffer, s_flipped_buffer, s_encode_has_work,
                 s_encode_shutdown, s_encode_height>>
threadVars == <<mainpc, wpc, mutex>>
encVars == <<enc, encStream, lostWrites, tempVideo, tempAudio, outputFile>>
convVars == <<frontend, cancel_flag, pboAvail, krec, frames_captured, audio_bytes, result,
              stopRequested, emuShutdowns>>
histVars == <<issued, posted, cbCount, cancelAtCb, cancelSeen, lostPending, workerStarted,
              mapFailed, emulationRan, progressLog>>
sizeVars == <<res_size, sizeReported, s_ff_config, encOpens, openFailed>>
sessionVars == <<captureVars, threadVars, encVars, convVars, histVars, pp_caller, sizeVars,
                 outputHolds, coreStarted>>
vars == <<replayVars, parseVars, sessionVars, calcVars>>

----------------------------------------------------------------------------
(* Bounds of the model *)
MaxFrames == 2          \* longest Timeline (in frames) a replay session is given
MaxPolls == 4           \* polls counted per tick (the counter saturates here)

Byte == 0..255
Untouched == -1         \* a buffer byte the callback did not write

Min(a, b) == IF a < b THEN a ELSE b

----------------------------------------------------------------------------
(* KrecData as the replay uses it *)
NoKrec == [null |-> TRUE]

\* pif_replay_callback, lines 307-309: num_players clamped to 1..4
ClampPlayers(n) == IF n < 1 THEN 1 ELSE IF n > 4 THEN 4 ELSE n

\* the k-th byte (1-based) of a generated Timeline: distinct bytes per position
DataByte(k) == (k * 41 + 7) % 256

\* a Timeline of n whole frames for a header that says num_players = np
Timeline(np, n) ==
    [num_players |-> np,
     input_data |-> [k \in 1..(n * ClampPlayers(np) * 4) |-> DataByte(k)],
     total_input_frames |-> n,
     delay_frames |-> 0]

\* header values below, inside and above the range 1..4
ReplayPlayers == {0, 2, 5}
ReplayTimelines == {Timeline(np, n) : np \in ReplayPlayers, n \in 0..MaxFrames}

----------------------------------------------------------------------------
(* Joybus commands and the PIF channels the core hands to the callback *)
JCMD_STATUS == 0
JCMD_CONTROLLER_READ == 1
JCMD_PAK_READ == 2
JCMD_PAK_WRITE == 3
JCMD_RESET == 255

\* one struct pif_channel: tx / rx / rx_buf are pointers (TRUE = non-null),
\* cmd is tx_buf[0], rxval is *rx on entry
Chan(tx, cmd, rx, rxval, rxbuf) ==
    [tx |-> tx, cmd |-> cmd, rx |-> rx, rxval |-> rxval, rx_buf |-> rxbuf]

ChanIdle == Chan(FALSE, 0, FALSE, 0, FALSE)
ChanCmd(c) == Chan(TRUE, c, TRUE, 192 + 3, TRUE)

\* what channel 0 may carry in the replay specification
Chan0Set == {ChanIdle} \cup {ChanCmd(c) : c \in {JCMD_STATUS, JCMD_CONTROLLER_READ,
                                                   JCMD_PAK_READ, JCMD_PAK_WRITE,
                                                   JCMD_RESET}}
               \cup {Chan(TRUE, JCMD_CONTROLLER_READ, TRUE, 128, FALSE)}
\* what channels 1..3 may carry
ChanNSet == {ChanIdle, ChanCmd(JCMD_CONTROLLER_READ), ChanCmd(JCMD_STATUS)}

\* what channels 2 and 3 may carry (the callback treats every channel i >= 1
\* alike, and channel 1 takes all of ChanNSet)
ChanHiSet == {ChanIdle, ChanCmd(JCMD_CONTROLLER_READ)}

\* channels 2 and 3 carry the same command
PifInputs == {[i \in 0..3 |-> IF i = 0 THEN a ELSE IF i = 1 THEN b ELSE c] :
                a \in Chan0Set, b \in ChanNSet, c \in ChanHiSet}

\* the response buffer indices the callback can write
RxIdx == {0, 1, 2, 3, 32}
RxUntouched == [k \in RxIdx |-> Untouched]

\* the buffers as the core passes them in
PifEntry(pif) == [i \in 0..3 |-> [rx |-> IF pif[i].rx THEN pif[i].rxval ELSE Untouched,
                                  rx_buf |-> RxUntouched]]

----------------------------------------------------------------------------
(* pif_replay.cpp *)

\* memcpy(&s_cached_input[i], src, 4): a uint32_t is kept as its four bytes,
\* least significant first (the memory image on the little-endian hosts the
\* program is built for); 2^32 does not fit the checker's integers
Word(b0, b1, b2, b3) == <<b0, b1, b2, b3>>

\* (w >> sh) & 0xFF for sh in {0, 8, 16, 24}
ByteAt(w, sh) == w[(sh \div 8) + 1]

\* uint16_t type = 0x0500
JoyType == <<0, 5, 0, 0>>

IsControllerRead(pif) ==
    pif[0].tx /\ pif[0].cmd = JCMD_CONTROLLER_READ /\ pif[0].rx_buf

\* the statics of pif_replay.cpp as one record
ReplayState ==
    [krec |-> s_krec, idx |-> s_input_frame_index, synced |-> s_synced_this_frame,
     finished |-> s_replay_finished, cached |-> s_cached_input,
     cachedN |-> s_cached_num_players]

ConsumeGuardNoSync(st, pif) == IsControllerRead(pif)

\* line 317: only consume a new input frame once per emulator frame
ConsumeGuard(st, pif) == IsControllerRead(pif) /\ ~st.synced

BytesPerFrame(kd) == ClampPlayers(kd.num_players) * 4

HasInputFrameStrict(kd, idx) ==
    idx * BytesPerFrame(kd) + BytesPerFrame(kd) < Len(kd.input_data)

\* line 324: offset + bytes_per_frame <= input_data.size()
HasInputFrame(kd, idx) ==
    idx * BytesPerFrame(kd) + BytesPerFrame(kd) <= Len(kd.input_data)

\* lines 327-330: the words of frame idx, players beyond num_players keep their
\* previous word
ReadFrame(kd, idx, old) ==
    [i \in 0..3 |->
        IF i < ClampPlayers(kd.num_players)
        THEN LET o == idx * BytesPerFrame(kd) + i * 4
             IN Word(kd.input_data[o + 1], kd.input_data[o + 2],
                     kd.input_data[o + 3], kd.input_data[o + 4])
        ELSE old[i]]

ZeroInput == [i \in 0..3 |-> Word(0, 0, 0, 0)]

\* lines 342-376: what the write loop leaves in channel i's buffers
WriteChannel(ch, i, np, cached, cachedN) ==
    IF i >= np \/ ~ch.tx \/ ~ch.rx
    THEN [rx |-> IF ch.rx THEN ch.rxval ELSE Untouched, rx_buf |-> RxUntouched]
    ELSE [rx |-> ch.rxval % 64,      \* *rx &= ~0xC0
          rx_buf |->
            IF ~ch.rx_buf THEN RxUntouched
            ELSE IF ch.cmd = JCMD_STATUS \/ ch.cmd = JCMD_RESET
                 THEN [RxUntouched EXCEPT ![0] = ByteAt(JoyType, 0),
                                          ![1] = ByteAt(JoyType, 8),
                                          ![2] = 0]
            ELSE IF ch.cmd = JCMD_CONTROLLER_READ
                 THEN IF i < cachedN
                      THEN [RxUntouched EXCEPT ![0] = ByteAt(cached[i], 24),
                                               ![1] = ByteAt(cached[i], 16),
                                               ![2] = ByteAt(cached[i], 8),
                                               ![3] = ByteAt(cached[i], 0)]
                      ELSE RxUntouched
            ELSE IF ch.cmd = JCMD_PAK_READ
                 THEN [RxUntouched EXCEPT ![32] = 255]
            ELSE IF ch.cmd = JCMD_PAK_WRITE
                 THEN [RxUntouched EXCEPT ![0] = 255]
            ELSE RxUntouched]

ZeroInputKept(old) == old

\* line 289: memset(s_cached_input, 0, sizeof(s_cached_input))
ClearedInput(old) == ZeroInput

\* lines 274-281: the statics before any session
FreshReplay ==
    [krec |-> NoKrec, idx |-> 0, synced |-> FALSE, finished |-> FALSE,
     cached |-> ZeroInput, cachedN |-> 0]

\* lines 283-290: the statics pif_replay_init leaves, given the ones it found
InitState(st, kd) ==
    [krec |-> kd, idx |-> 0, synced |-> FALSE, finished |-> FALSE,
     cached |-> ClearedInput(st.cached), cachedN |-> 0]

\* lines 292-294
ResetState(st) == [st EXCEPT !.synced = FALSE]

ReplayIdleNoKrecOnly(st) == st.krec = NoKrec

\* line 305: if (!s_krec || s_replay_finished) return;
ReplayIdle(st) == st.krec = NoKrec \/ st.finished

\* lines 304-377: the statics and the struct pif buffers the callback leaves,
\* and whether it read a Timeline frame
PollResult(st, pif) ==
    IF ReplayIdle(st)
    THEN \* line 305
         [st |-> st, out |-> PifEntry(pif), read |-> FALSE]
    ELSE LET np == ClampPlayers(st.krec.num_players)
         IN IF ConsumeGuard(st, pif)
            THEN IF HasInputFrame(st.krec, st.idx)
                 THEN LET words == ReadFrame(st.krec, st.idx, st.cached)
                      IN [st |-> [st EXCEPT !.synced = TRUE, !.cachedN = np,
                                            !.cached = words, !.idx = st.idx + 1],
                          out |-> [i \in 0..3 |-> WriteChannel(pif[i], i, np, words, np)],
                          read |-> TRUE]
                 ELSE \* lines 332-338: replay is done, return before the write loop
                      [st |-> [st EXCEPT !.synced = TRUE, !.finished = TRUE,
                                         !.cachedN = 0, !.cached = ZeroInput],
                       out |-> PifEntry(pif), read |-> FALSE]
            ELSE [st |-> st,
                  out |-> [i \in 0..3 |->
                             WriteChannel(pif[i], i, np, st.cached, st.cachedN)],
                  read |-> FALSE]

\* the statics take the values of a record
SetReplayState(st) ==
    /\ s_krec' = st.krec
    /\ s_input_frame_index' = st.idx
    /\ s_synced_this_frame' = st.synced
    /\ s_replay_finished' = st.finished
    /\ s_cached_input' = st.cached
    /\ s_cached_num_players' = st.cachedN

pif_replay_init(kd) ==
    /\ SetReplayState(InitState(ReplayState, kd))
    /\ idxAtReset' = 0
    /\ pollsThisTick' = 0
    /\ consumed' = <<>>
    /\ twin' = [st |-> InitState(FreshReplay, kd), out |-> pif_out,
                after |-> consumed # <<>>, polled |-> FALSE]
    /\ UNCHANGED <<pif_out, pif_in>>

pif_replay_reset_frame_sync ==
    /\ SetReplayState(ResetState(ReplayState))
    /\ idxAtReset' = s_input_frame_index
    /\ pollsThisTick' = 0
    /\ twin' = [twin EXCEPT !.st = ResetState(twin.st)]
    /\ UNCHANGED <<pif_out, pif_in, consumed>>

pif_replay_callback(pif) ==
    \E r \in {PollResult(ReplayState, pif)}, t \in {PollResult(twin.st, pif)} :
       /\ SetReplayState(r.st)
       /\ pif_out' = r.out
       /\ pif_in' = pif
       /\ pollsThisTick' = Min(pollsThisTick + 1, MaxPolls)
       /\ consumed' = IF r.read THEN Append(consumed, s_input_frame_index) ELSE consumed
       /\ twin' = [twin EXCEPT !.st = t.st, !.out = t.out, !.polled = TRUE]
       /\ UNCHANGED idxAtReset

----------------------------------------------------------------------------
(* krec_parser.cpp *)

\* A .krec file: the magic at offset 0, num_players at offset 268, and `tail`,
\* the bytes from offset 272 to the end of the file (for KRC1 the tail starts
\* with the 4 x 32 bytes of player names, for KRC0 with the first record).
\* Files shorter than 272 bytes are outside the model.
HeaderFixed == 272          \* offset of the first byte after num_players
NamesSize == 128            \* 4 x 32 bytes of player names (KRC1)
MinFileLen == 400           \* line 17: if (file_len < 400)

KrecFile(magic, np, tail) == [magic |-> magic, num_players |-> np, tail |-> tail]
NoFile == [none |-> TRUE]
NoRecords == [none |-> TRUE]

FileLen(f) == HeaderFixed + Len(f.tail)

\* line 42: header_size = is_krc1 ? 400 : 272
HeaderSize(magic) == IF magic = "KRC1" THEN HeaderFixed + NamesSize ELSE HeaderFixed

TooShortKrc1Only(f) == f.magic = "KRC1" /\ FileLen(f) < MinFileLen

\* line 17: the length test that precedes the magic test
TooShort(f) == FileLen(f) < MinFileLen

Zeros(n) == [k \in 1..n |-> 0]

\* memcpy(&rlen, scan, 2) on a little-endian host
U16(lo, hi) == lo + 256 * hi

\* while (scan < end && *scan != 0) scan++; if (scan < end) scan++;
\* buf is 1-based, scan and end are offsets from buf.data()
RECURSIVE SkipString(_, _)
SkipString(buf, scan) ==
    IF scan < Len(buf) /\ buf[scan + 1] # 0 THEN SkipString(buf, scan + 1)
    ELSE IF scan < Len(buf) THEN scan + 1
    ELSE scan

\* krec_parse in progress or returned: stage is "none" before the call, "loop"
\* while the record loop runs (scan is the offset from buf.data() + header_size)
\* and "done" once it has returned ok
ParseState(stage, ok, np, scan, data, total, delay, in_delay) ==
    [stage |-> stage, ok |-> ok, num_players |-> np, scan |-> scan,
     input_data |-> data, total_input_frames |-> total, delay_frames |-> delay,
     in_delay |-> in_delay]

NotParsed == ParseState("none", FALSE, 0, 0, <<>>, 0, 0, TRUE)
ParseFailed == ParseState("done", FALSE, 0, 0, <<>>, 0, 0, TRUE)

\* the bytes after the header: buf.data() + header_size .. buf.data() + file_len
Body(f) == SubSeq(f.tail, HeaderSize(f.magic) - HeaderFixed + 1, Len(f.tail))

\* lines 6-89: open, length and magic tests, header fields, loop set-up
krec_parse_header(f) ==
    IF TooShort(f) THEN ParseFailed
    ELSE IF f.magic # "KRC1" /\ f.magic # "KRC0" THEN ParseFailed
    ELSE IF FileLen(f) < HeaderSize(f.magic) THEN ParseFailed
    ELSE ParseState("loop", FALSE, f.num_players, 0, <<>>, 0, 0, TRUE)

ParserPlayersUnclamped(n) == n

\* lines 77-79: krec_parse clamps num_players to 1..4 for bytes_per_frame
ParserPlayers(n) == IF n < 1 THEN 1 ELSE IF n > 4 THEN 4 ELSE n

\* line 91: while (scan + 1 < end)
LoopGuard(buf, st) == st.scan + 1 < Len(buf)

Returned(st) == [st EXCEPT !.stage = "done", !.ok = TRUE]

DelayAfterZeroRecordAlways(st) == st.delay_frames + 1

\* line 110: if (in_delay) out.delay_frames++
DelayAfterZeroRecord(st) ==
    IF st.in_delay THEN st.delay_frames + 1 ELSE st.delay_frames

ZeroRecordDataNone(bpf) == <<>>

\* line 111: insert bytes_per_frame zero bytes for a zero-length record
ZeroRecordData(bpf) == Zeros(bpf)

\* lines 92-127: one iteration of the record loop (a break returns at line 130)
krec_parse_record(buf, bpf, st) ==
    LET type == buf[st.scan + 1]
        s1 == st.scan + 1
    IN IF type = 18                                    \* 0x12 input
       THEN IF s1 + 2 > Len(buf) THEN Returned(st)
            ELSE LET rlen == U16(buf[s1 + 1], buf[s1 + 2])
                     s2 == s1 + 2
                 IN IF rlen > 0
                    THEN IF s2 + rlen > Len(buf) THEN Returned(st)
                         ELSE [st EXCEPT !.scan = s2 + rlen,
                                         !.in_delay = FALSE,
                                         !.input_data = @ \o SubSeq(buf, s2 + 1, s2 + rlen),
                                         !.total_input_frames = @ + 1]
                    ELSE [st EXCEPT !.scan = s2,
                                    !.delay_frames = DelayAfterZeroRecord(st),
                                    !.input_data = @ \o ZeroRecordData(bpf),
                                    !.total_input_frames = @ + 1]
       ELSE IF type = 20                               \* 0x14 drop
       THEN [st EXCEPT !.scan = SkipString(buf, s1) + 4]
       ELSE IF type = 8                                \* 0x08 chat
       THEN [st EXCEPT !.scan = SkipString(buf, SkipString(buf, s1))]
       ELSE Returned(st)                               \* unknown record type

----------------------------------------------------------------------------
(* Logs as a recorder writes them: N zero-length input records (frame delay) *)
(* followed by M input records of playerCount*4 bytes.                       *)
MaxDelay == 2           \* delay records of a short log
MaxInput == 2           \* input records of a log
LongDelay == 43         \* delay records of a long log (a KRC0 file of >= 400 bytes)

DelayCounts == (0..MaxDelay) \cup {LongDelay}
ParsePlayers == {0, 1, 2, 5}
Magics == {"KRC1", "KRC0", "KRCX"}

\* payload byte k (1-based) of input record j (1-based); variant 0 is all zero
PayloadByte(variant, j, k) == IF variant = 0 THEN 0 ELSE (j * 16 + k) % 256

Payload(variant, j, np) == [k \in 1..(ClampPlayers(np) * 4) |-> PayloadByte(variant, j, k)]

\* one input record: type 0x12, 16-bit little-endian length, data
InputRecord(data) == <<18, Len(data) % 256, Len(data) \div 256>> \o data

RECURSIVE Concat(_)
Concat(ss) == IF ss = <<>> THEN <<>> ELSE Head(ss) \o Concat(Tail(ss))

Records(n, m, variant, np) ==
    [j \in 1..(n + m) |-> IF j <= n THEN <<>> ELSE Payload(variant, j - n, np)]

LogBody(recs) == Concat([j \in 1..Len(recs) |-> InputRecord(recs[j])])

LogFile(magic, np, recs) ==
    KrecFile(magic, np,
             (IF magic = "KRC1" THEN Zeros(NamesSize) ELSE <<>>) \o LogBody(recs))

InitParse ==
    /\ \E magic \in Magics, np \in ParsePlayers, n \in DelayCounts, m \in 0..MaxInput,
          variant \in {0, 1} :
          /\ recorded = [delays |-> n, records |-> Records(n, m, variant, np)]
          /\ file = LogFile(magic, np, recorded.records)
    /\ parsed = NotParsed

\* A damaged log: record j of a log is cut off by the end of the file (after
\* its type byte, after one length byte, or one byte short of its end), or its
\* type byte is replaced by one that is no record type.
UnknownType == 99
DamageKinds == {"type only", "half length", "short data", "unknown type"}

Prefix(seq, n) == SubSeq(seq, 1, n)

Damaged(rec, kind, rest) ==
    LET bytes == InputRecord(rec)
    IN IF kind = "type only" THEN Prefix(bytes, 1)
       ELSE IF kind = "half length" THEN Prefix(bytes, 2)
       ELSE IF kind = "short data" THEN Prefix(bytes, Len(bytes) - 1)
       ELSE <<UnknownType>> \o Tail(bytes) \o rest

DamagedBody(recs, j, kind) ==
    LogBody(Prefix(recs, j - 1)) \o
        Damaged(recs[j], kind, LogBody(SubSeq(recs, j + 1, Len(recs))))

\* the damage hits one of the last MaxInput + 1 records
InitParseDamaged ==
    /\ \E magic \in Magics, np \in ParsePlayers, n \in DelayCounts, m \in 0..MaxInput,
          kind \in DamageKinds :
          LET recs == Records(n, m, 1, np)
          IN \E j \in 1..Len(recs) :
                /\ j >= Len(recs) - MaxInput
                /\ recorded = [delays |-> n, records |-> recs, good |-> j - 1]
                /\ file = KrecFile(magic, np,
                              (IF magic = "KRC1" THEN Zeros(NamesSize) ELSE <<>>)
                                  \o DamagedBody(recs, j, kind))
    /\ parsed = NotParsed

\* Logs whose input records carry any number of words, not only playerCount:
\* the record loop takes the length from the record itself.
RecordWords == {0, 1, 2}
AnyLengthPlayers == {1, 2}

RecordsOfSize(sizes) ==
    [j \in 1..Len(sizes) |-> [k \in 1..(sizes[j] * 4) |-> PayloadByte(1, j, k)]]

LeadingDelays(recs) ==
    CHOOSE n \in 0..Len(recs) :
        /\ \A j \in 1..n : recs[j] = <<>>
        /\ n = Len(recs) \/ recs[n + 1] # <<>>

InitParseAnyLength ==
    /\ \E magic \in {"KRC1", "KRC0"}, np \in AnyLengthPlayers, m \in 0..MaxInput :
          \E sizes \in [1..m -> RecordWords] :
             /\ recorded = [delays |-> LeadingDelays(RecordsOfSize(sizes)),
                            records |-> RecordsOfSize(sizes)]
             /\ file = LogFile(magic, np, recorded.records)
    /\ parsed = NotParsed

\* krec_parse up to the record loop
KrecParseHeader ==
    /\ parsed.stage = "none"
    /\ parsed' = krec_parse_header(file)
    /\ UNCHANGED <<file, recorded, replayVars, sessionVars, calcVars>>

\* one iteration of the record loop
KrecParseRecord ==
    /\ parsed.stage = "loop"
    /\ LoopGuard(Body(file), parsed)
    /\ parsed' = krec_parse_record(Body(file), ParserPlayers(parsed.num_players) * 4, parsed)
    /\ UNCHANGED <<file, recorded, replayVars, sessionVars, calcVars>>

\* the loop condition fails: return true
KrecParseReturn ==
    /\ parsed.stage = "loop"
    /\ ~LoopGuard(Body(file), parsed)
    /\ parsed' = Returned(parsed)
    /\ UNCHANGED <<file, recorded, replayVars, sessionVars, calcVars>>

----------------------------------------------------------------------------
(* The replay synchronizer on its own: any Timeline, any order of init,     *)
(* reset-tick and polls, any commands on the channels.                      *)
InitReplay ==
    /\ s_krec = NoKrec
    /\ s_input_frame_index = 0
    /\ s_synced_this_frame = FALSE
    /\ s_replay_finished = FALSE
    /\ s_cached_input = ZeroInput
    /\ s_cached_num_players = 0
    /\ pif_out = PifEntry([i \in 0..3 |-> ChanIdle])
    /\ idxAtReset = 0
    /\ pollsThisTick = 0
    /\ pif_in = [i \in 0..3 |-> ChanIdle]
    /\ consumed = <<>>
    /\ twin = [st |-> FreshReplay, out |-> pif_out, after |-> FALSE, polled |-> FALSE]

InitParseIdle ==
    /\ file = NoFile
    /\ parsed = NotParsed
    /\ recorded = NoRecords

----------------------------------------------------------------------------
(* frame_capture.cpp: buffers *)
ScreenHeight == 2       \* rows of a rendered frame
MaxCallbacks == 4       \* frame callbacks the core delivers in a session
MaxSessionPolls == 2    \* polls the core makes between two frame callbacks

\* the size read_screen reports once the core renders, and the sizes a
\* configuration can request (config.res_width x config.res_height)
RenderSize == [width |-> 1, height |-> ScreenHeight]
RequestedSizes == {RenderSize, [width |-> RenderSize.width + 1, height |-> ScreenHeight + 1]}
NoSize == [width |-> 0, height |-> 0]

EncoderUsableAlways(opened, openOk) == TRUE

\* lines 263-276: the callback goes on to capture only with an encoder that was
\* open already or has just been opened; a failed open returns at line 273
EncoderUsable(opened, openOk) == opened \/ openOk

\* lines 268-269: the configuration takes the size read_screen reported
KeptConfig(cfg, size) == cfg
AdaptedConfig(cfg, size) == size

\* one row of pixels: <<readback number, row of the bottom-up source image>>
NoRow == <<0, 0>>
Rows == 0..(ScreenHeight - 1)
BlankBuffer == [y \in Rows |-> NoRow]

\* what glReadPixels delivers for the k-th readback (bottom-up)
Pixels(k) == [y \in Rows |-> <<k, y>>]

FlipRowsNoFlip(dst, src, height) == [y \in Rows |-> IF y < height THEN src[y] ELSE dst[y]]

\* lines 84-87 (and 287-290): dst row y = src row height-1-y
FlipRows(dst, src, height) ==
    [y \in Rows |-> IF y < height THEN src[height - 1 - y] ELSE dst[y]]

\* the readback a written (top-down) frame came from
FrameId(buf) == buf[0][1]
FrameIds(stream) == [i \in 1..Len(stream) |-> FrameId(stream[i])]

CancelObservedNever == FALSE

\* line 229: s_cancel_flag && s_cancel_flag->load()
CancelObserved == frontend = "gui" /\ cancel_flag

\* line 71: the worker's wait predicate
WorkerWakes == s_encode_has_work \/ s_encode_shutdown

\* line 73
WorkerExits == s_encode_shutdown /\ ~s_encode_has_work

wait_for_encode_nowait == TRUE

\* line 122: the producer's wait predicate
wait_for_encode == ~s_encode_has_work

\* where process_pbo_async returns to: line 307 of the callback, line 223 of
\* frame_capture_flush
AfterProcessPbo == IF pp_caller = "callback" THEN "fc_issue" ELSE "flush_wait"

\* lines 219 / 303: the slot whose readback was issued one callback earlier
PrevSlot == 1 - s_pbo_index

NextPboIndexStuck == s_pbo_index

\* line 313
NextPboIndex == 1 - s_pbo_index

SessionPlayers == 2
SessionTimelines == {Timeline(SessionPlayers, n) : n \in 0..MaxFrames}

SessionPifInputs == {[i \in 0..3 |-> ChanCmd(IF i = 0 THEN c ELSE JCMD_CONTROLLER_READ)] :
                        c \in {JCMD_CONTROLLER_READ, JCMD_STATUS}}

\* line 1499: s_progress_callback(-1, 0)
MuxingSentinel == -1

ProgressAfter(log, current) == IF frontend = "gui" THEN Append(log, current) ELSE log

----------------------------------------------------------------------------
(* frame_capture.cpp: the frame callback on the emulation thread *)

\* lines 227-253: cancel check, speed limiter, reset of the PIF sync flag, end of replay
\* (cleanup_pbos of the cancel branch continues at StopLock)
FC_Enter ==
    /\ mainpc = "core"
    /\ ~stopRequested
    /\ cbCount < MaxCallbacks
    /\ cbCount' = cbCount + 1
    /\ cancelSeen' = (cancelSeen \/ CancelObserved)
    /\ s_speed_limiter_disabled' = IF CancelObserved THEN s_speed_limiter_disabled ELSE TRUE
    /\ stopRequested' = IF CancelObserved THEN ~s_pbo_initialized ELSE s_replay_finished
    /\ mainpc' = IF CancelObserved THEN (IF s_pbo_initialized THEN "stop_lock" ELSE "core")
           ELSE IF s_replay_finished THEN "core" ELSE "fc_screen"
    /\ IF CancelObserved THEN UNCHANGED replayVars ELSE pif_replay_reset_frame_sync
    /\ UNCHANGED <<s_encoder_opened, s_captured_frames, s_total_frames, s_pbo_index,
                   s_pbo_initialized, s_pbo_has_data, pbo, s_staging_buffer,
                   s_flipped_buffer, s_encode_has_work, s_encode_shutdown,
                   s_encode_height, wpc, mutex, enc, encStream, lostWrites, tempVideo,
                   tempAudio, outputFile, frontend, cancel_flag, pboAvail, krec,
                   frames_captured, audio_bytes, result, emuShutdowns, issued, posted,
                   cancelAtCb, lostPending, workerStarted, mapFailed, emulationRan,
                   progressLog, parseVars, calcVars,
                   pp_caller, sizeVars, outputHolds, coreStarted>>

\* std::thread::joinable(): a thread was started on the object and not joined
\* (a worker that has left encode_worker is still joinable)
Joinable(w) == w \notin {"none", "joined"}

\* lines 103-107: s_encode_thread = std::thread(encode_worker).  Move-assigning to a
\* std::thread that is still joinable calls std::terminate(): the process aborts
start_encode_thread(w) == IF Joinable(w) THEN "terminated" ELSE "wait"

\* lines 255-305: screen size, lazy open of the encoder, then either the synchronous
\* fallback (no PBO functions) or init_pbos and the choice to drain the previous slot
FC_Capture(ready, openOk) ==
    LET attempt == ready /\ ~s_encoder_opened
        opens == attempt /\ openOk
        proceed == ready /\ EncoderUsable(s_encoder_opened, openOk)
        fallback == proceed /\ ~s_pbo_initialized /\ ~pboAvail
        initp == proceed /\ ~s_pbo_initialized /\ pboAvail
    IN
      /\ mainpc = "fc_screen"
      /\ s_encoder_opened' = (s_encoder_opened \/ (ready /\ openOk))
      /\ s_ff_config' = IF attempt THEN AdaptedConfig(s_ff_config, RenderSize) ELSE s_ff_config
      /\ encOpens' = IF opens THEN Append(encOpens, s_ff_config') ELSE encOpens
      /\ openFailed' = (openFailed \/ (attempt /\ ~openOk))
      /\ sizeReported' = (sizeReported \/ ready)
      /\ enc' = IF opens THEN "open" ELSE enc
      /\ tempVideo' = (tempVideo \/ opens)
      /\ stopRequested' = (ready /\ ~s_encoder_opened /\ ~openOk)
      /\ issued' = IF fallback THEN issued + 1 ELSE issued
      /\ s_flipped_buffer' = IF fallback THEN FlipRows(s_flipped_buffer, Pixels(issued + 1), ScreenHeight)
             ELSE s_flipped_buffer
      /\ encStream' = IF fallback THEN Append(encStream, s_flipped_buffer') ELSE encStream
      /\ s_captured_frames' = IF fallback THEN s_captured_frames + 1 ELSE s_captured_frames
      /\ progressLog' = IF fallback THEN ProgressAfter(progressLog, s_captured_frames + 1)
             ELSE progressLog
      /\ s_pbo_initialized' = (s_pbo_initialized \/ initp)
      /\ s_pbo_index' = IF initp THEN 0 ELSE s_pbo_index
      /\ s_pbo_has_data' = IF initp THEN FALSE ELSE s_pbo_has_data
      /\ pbo' = IF initp THEN [i \in 0..1 |-> BlankBuffer] ELSE pbo
      /\ s_encode_shutdown' = IF initp THEN FALSE ELSE s_encode_shutdown
      /\ s_encode_has_work' = IF initp THEN FALSE ELSE s_encode_has_work
      /\ wpc' = IF initp THEN start_encode_thread(wpc) ELSE wpc
      /\ workerStarted' = (workerStarted \/ initp)
      /\ mainpc' = IF initp /\ Joinable(wpc) THEN "terminated"
             ELSE IF ~proceed \/ fallback THEN "core"
             ELSE IF ~initp /\ s_pbo_has_data THEN "pp_wait" ELSE "fc_issue"
      /\ UNCHANGED replayVars
      /\ UNCHANGED <<s_total_frames, s_speed_limiter_disabled, s_staging_buffer,
                     s_encode_height, mutex, lostWrites, tempAudio, outputFile, frontend,
                     cancel_flag, pboAvail, krec, frames_captured, audio_bytes, result,
                     emuShutdowns, posted, cbCount, cancelAtCb, cancelSeen, lostPending,
                     mapFailed, emulationRan, parseVars, calcVars,
                     pp_caller, res_size, outputHolds, coreStarted>>

\* process_pbo_async, line 168: wait_for_encode() returns
PP_Wait ==
    /\ mainpc = "pp_wait"
    /\ mutex = "free"
    /\ wait_for_encode
    /\ mainpc' = "pp_map"
    /\ UNCHANGED replayVars
    /\ UNCHANGED <<s_encoder_opened, s_captured_frames, s_total_frames,
                   s_speed_limiter_disabled, s_pbo_index, s_pbo_initialized,
                   s_pbo_has_data, pbo, s_staging_buffer, s_flipped_buffer,
                   s_encode_has_work, s_encode_shutdown, s_encode_height, wpc, mutex, enc,
                   encStream, lostWrites, tempVideo, tempAudio, outputFile, frontend,
                   cancel_flag, pboAvail, krec, frames_captured, audio_bytes, result,
                   stopRequested, emuShutdowns, issued, posted, cbCount, cancelAtCb,
                   cancelSeen, lostPending, workerStarted, mapFailed, emulationRan,
                   progressLog, parseVars, calcVars,
                   pp_caller, sizeVars, outputHolds, coreStarted>>

\* lines 170-172: glMapBuffer; on NULL the slot's frame is skipped
\* (on success the memcpy into the staging buffer begins)
PP_Map(mapOk) ==
    /\ mainpc = "pp_map"
    /\ mainpc' = IF mapOk THEN "pp_copy" ELSE AfterProcessPbo
    /\ mapFailed' = (mapFailed \/ ~mapOk)
    /\ UNCHANGED replayVars
    /\ UNCHANGED <<s_encoder_opened, s_captured_frames, s_total_frames,
                   s_speed_limiter_disabled, s_pbo_index, s_pbo_initialized,
                   s_pbo_has_data, pbo, s_staging_buffer, s_flipped_buffer,
                   s_encode_has_work, s_encode_shutdown, s_encode_height, wpc, mutex, enc,
                   encStream, lostWrites, tempVideo, tempAudio, outputFile, frontend,
                   cancel_flag, pboAvail, krec, frames_captured, audio_bytes, result,
                   stopRequested, emuShutdowns, issued, posted, cbCount, cancelAtCb,
                   cancelSeen, lostPending, workerStarted, emulationRan, progressLog, parseVars, calcVars,
                   pp_caller, sizeVars, outputHolds, coreStarted>>

\* lines 174-175: the memcpy into s_staging_buffer completes
PP_Copy ==
    /\ mainpc = "pp_copy"
    /\ s_staging_buffer' = pbo[PrevSlot]
    /\ mainpc' = "pp_post"
    /\ UNCHANGED replayVars
    /\ UNCHANGED <<s_encoder_opened, s_captured_frames, s_total_frames,
                   s_speed_limiter_disabled, s_pbo_index, s_pbo_initialized,
                   s_pbo_has_data, pbo, s_flipped_buffer, s_encode_has_work,
                   s_encode_shutdown, s_encode_height, wpc, mutex, enc, encStream,
                   lostWrites, tempVideo, tempAudio, outputFile, frontend, cancel_flag,
                   pboAvail, krec, frames_captured, audio_bytes, result, stopRequested,
                   emuShutdowns, issued, posted, cbCount, cancelAtCb, cancelSeen,
                   lostPending, workerStarted, mapFailed, emulationRan, progressLog, parseVars, calcVars,
                   pp_caller, sizeVars, outputHolds, coreStarted>>

\* lines 178-184: post the job under the mutex and notify the worker
PP_Post ==
    /\ mainpc = "pp_post"
    /\ mutex = "free"
    /\ s_encode_height' = ScreenHeight
    /\ s_encode_has_work' = TRUE
    /\ posted' = posted + 1
    /\ mainpc' = AfterProcessPbo
    /\ UNCHANGED replayVars
    /\ UNCHANGED <<s_encoder_opened, s_captured_frames, s_total_frames,
                   s_speed_limiter_disabled, s_pbo_index, s_pbo_initialized,
                   s_pbo_has_data, pbo, s_staging_buffer, s_flipped_buffer,
                   s_encode_shutdown, wpc, mutex, enc, encStream, lostWrites, tempVideo,
                   tempAudio, outputFile, frontend, cancel_flag, pboAvail, krec,
                   frames_captured, audio_bytes, result, stopRequested, emuShutdowns,
                   issued, cbCount, cancelAtCb, cancelSeen, lostPending, workerStarted,
                   mapFailed, emulationRan, progressLog, parseVars, calcVars,
                   pp_caller, sizeVars, outputHolds, coreStarted>>

\* lines 307-313: start the asynchronous readback of the current frame
FC_Issue ==
    /\ mainpc = "fc_issue"
    /\ pbo' = [pbo EXCEPT ![s_pbo_index] = Pixels(issued + 1)]
    /\ issued' = issued + 1
    /\ s_pbo_has_data' = TRUE
    /\ s_pbo_index' = NextPboIndex
    /\ mainpc' = "core"
    /\ UNCHANGED replayVars
    /\ UNCHANGED <<s_encoder_opened, s_captured_frames, s_total_frames,
                   s_speed_limiter_disabled, s_pbo_initialized, s_staging_buffer,
                   s_flipped_buffer, s_encode_has_work, s_encode_shutdown,
                   s_encode_height, wpc, mutex, enc, encStream, lostWrites, tempVideo,
                   tempAudio, outputFile, frontend, cancel_flag, pboAvail, krec,
                   frames_captured, audio_bytes, result, stopRequested, emuShutdowns,
                   posted, cbCount, cancelAtCb, cancelSeen, lostPending, workerStarted,
                   mapFailed, emulationRan, progressLog, parseVars, calcVars,
                   pp_caller, sizeVars, outputHolds, coreStarted>>

\* cleanup_pbos -> stop_encode_thread, lines 110-114: set the shutdown flag, notify
StopLock ==
    /\ mainpc = "stop_lock"
    /\ mutex = "free"
    /\ s_encode_shutdown' = TRUE
    /\ mainpc' = "stop_join"
    /\ UNCHANGED replayVars
    /\ UNCHANGED <<s_encoder_opened, s_captured_frames, s_total_frames,
                   s_speed_limiter_disabled, s_pbo_index, s_pbo_initialized,
                   s_pbo_has_data, pbo, s_staging_buffer, s_flipped_buffer,
                   s_encode_has_work, s_encode_height, wpc, mutex, enc, encStream,
                   lostWrites, tempVideo, tempAudio, outputFile, frontend, cancel_flag,
                   pboAvail, krec, frames_captured, audio_bytes, result, stopRequested,
                   emuShutdowns, issued, posted, cbCount, cancelAtCb, cancelSeen,
                   lostPending, workerStarted, mapFailed, emulationRan, progressLog, parseVars, calcVars,
                   pp_caller, sizeVars, outputHolds, coreStarted>>

\* lines 115-116 and 158-161, then s_emu->stop() (line 232): the join returns once the
\* worker has left encode_worker; the buffers are deleted
StopJoin ==
    /\ mainpc = "stop_join"
    /\ wpc = "exited"
    /\ wpc' = "joined"
    /\ pbo' = [i \in 0..1 |-> BlankBuffer]
    /\ s_pbo_initialized' = FALSE
    /\ lostPending' = (lostPending \/ (s_pbo_has_data /\ pp_caller = "callback"))
    /\ s_pbo_has_data' = FALSE
    /\ stopRequested' = (stopRequested \/ pp_caller = "callback")
    /\ mainpc' = IF pp_caller = "callback" THEN "core" ELSE "flushed"
    /\ UNCHANGED replayVars
    /\ UNCHANGED <<s_encoder_opened, s_captured_frames, s_total_frames,
                   s_speed_limiter_disabled, s_pbo_index, s_staging_buffer,
                   s_flipped_buffer, s_encode_has_work, s_encode_shutdown,
                   s_encode_height, mutex, enc, encStream, lostWrites, tempVideo,
                   tempAudio, outputFile, frontend, cancel_flag, pboAvail, krec,
                   frames_captured, audio_bytes, result, emuShutdowns, issued, posted,
                   cbCount, cancelAtCb, cancelSeen, workerStarted, mapFailed,
                   emulationRan, progressLog, parseVars, calcVars,
                   pp_caller, sizeVars, outputHolds, coreStarted>>

\* the core polls the controllers between two frame callbacks
PifPoll ==
    \E pif \in SessionPifInputs :
      /\ mainpc = "core"
      /\ ~stopRequested
      /\ pollsThisTick < MaxSessionPolls
      /\ pif_replay_callback(pif)
      /\ UNCHANGED <<s_encoder_opened, s_captured_frames, s_total_frames,
                     s_speed_limiter_disabled, s_pbo_index, s_pbo_initialized,
                     s_pbo_has_data, pbo, s_staging_buffer, s_flipped_buffer,
                     s_encode_has_work, s_encode_shutdown, s_encode_height, mainpc, wpc,
                     mutex, enc, encStream, lostWrites, tempVideo, tempAudio, outputFile,
                     frontend, cancel_flag, pboAvail, krec, frames_captured, audio_bytes,
                     result, stopRequested, emuShutdowns, issued, posted, cbCount,
                     cancelAtCb, cancelSeen, lostPending, workerStarted, mapFailed,
                     emulationRan, progressLog, parseVars, calcVars,
                   pp_caller, sizeVars, outputHolds, coreStarted>>


----------------------------------------------------------------------------
(* frame_capture.cpp: encode_worker *)

\* lines 70-73: the wait returns with the mutex held; leave on shutdown with no work
W_Wake ==
    /\ wpc = "wait"
    /\ mutex = "free"
    /\ WorkerWakes
    /\ wpc' = IF WorkerExits THEN "exited" ELSE "flip"
    /\ mutex' = IF WorkerExits THEN "free" ELSE "worker"
    /\ UNCHANGED replayVars
    /\ UNCHANGED <<s_encoder_opened, s_captured_frames, s_total_frames,
                   s_speed_limiter_disabled, s_pbo_index, s_pbo_initialized,
                   s_pbo_has_data, pbo, s_staging_buffer, s_flipped_buffer,
                   s_encode_has_work, s_encode_shutdown, s_encode_height, mainpc, enc,
                   encStream, lostWrites, tempVideo, tempAudio, outputFile, frontend,
                   cancel_flag, pboAvail, krec, frames_captured, audio_bytes, result,
                   stopRequested, emuShutdowns, issued, posted, cbCount, cancelAtCb,
                   cancelSeen, lostPending, workerStarted, mapFailed, emulationRan,
                   progressLog, parseVars, calcVars,
                   pp_caller, sizeVars, outputHolds, coreStarted>>

AfterFlipSkipWrite == "count"

\* lines 89-94: after the flip and the hand-back of the staging buffer comes write_frame
AfterFlip == "write"

\* lines 75-91: flip the staging buffer, clear has_work, unlock, notify the producer
W_Flip ==
    /\ wpc = "flip"
    /\ s_flipped_buffer' = FlipRows(s_flipped_buffer, s_staging_buffer, s_encode_height)
    /\ s_encode_has_work' = FALSE
    /\ mutex' = "free"
    /\ wpc' = AfterFlip
    /\ UNCHANGED replayVars
    /\ UNCHANGED <<s_encoder_opened, s_captured_frames, s_total_frames,
                   s_speed_limiter_disabled, s_pbo_index, s_pbo_initialized,
                   s_pbo_has_data, pbo, s_staging_buffer, s_encode_shutdown,
                   s_encode_height, mainpc, enc, encStream, lostWrites, tempVideo,
                   tempAudio, outputFile, frontend, cancel_flag, pboAvail, krec,
                   frames_captured, audio_bytes, result, stopRequested, emuShutdowns,
                   issued, posted, cbCount, cancelAtCb, cancelSeen, lostPending,
                   workerStarted, mapFailed, emulationRan, progressLog, parseVars, calcVars,
                   pp_caller, sizeVars, outputHolds, coreStarted>>

\* line 94: write_frame (it returns false, writing nothing, when the pipe is not open)
W_Write ==
    /\ wpc = "write"
    /\ encStream' = IF enc = "open" THEN Append(encStream, s_flipped_buffer) ELSE encStream
    /\ lostWrites' = IF enc = "open" THEN lostWrites ELSE lostWrites + 1
    /\ wpc' = "count"
    /\ UNCHANGED replayVars
    /\ UNCHANGED <<s_encoder_opened, s_captured_frames, s_total_frames,
                   s_speed_limiter_disabled, s_pbo_index, s_pbo_initialized,
                   s_pbo_has_data, pbo, s_staging_buffer, s_flipped_buffer,
                   s_encode_has_work, s_encode_shutdown, s_encode_height, mainpc, mutex,
                   enc, tempVideo, tempAudio, outputFile, frontend, cancel_flag, pboAvail,
                   krec, frames_captured, audio_bytes, result, stopRequested,
                   emuShutdowns, issued, posted, cbCount, cancelAtCb, cancelSeen,
                   lostPending, workerStarted, mapFailed, emulationRan, progressLog, parseVars, calcVars,
                   pp_caller, sizeVars, outputHolds, coreStarted>>

\* lines 95-99: count the frame, report progress
W_Count ==
    /\ wpc = "count"
    /\ s_captured_frames' = s_captured_frames + 1
    /\ progressLog' = ProgressAfter(progressLog, s_captured_frames + 1)
    /\ wpc' = "wait"
    /\ UNCHANGED replayVars
    /\ UNCHANGED <<s_encoder_opened, s_total_frames, s_speed_limiter_disabled,
                   s_pbo_index, s_pbo_initialized, s_pbo_has_data, pbo, s_staging_buffer,
                   s_flipped_buffer, s_encode_has_work, s_encode_shutdown,
                   s_encode_height, mainpc, mutex, enc, encStream, lostWrites, tempVideo,
                   tempAudio, outputFile, frontend, cancel_flag, pboAvail, krec,
                   frames_captured, audio_bytes, result, stopRequested, emuShutdowns,
                   issued, posted, cbCount, cancelAtCb, cancelSeen, lostPending,
                   workerStarted, mapFailed, emulationRan, parseVars, calcVars,
                   pp_caller, sizeVars, outputHolds, coreStarted>>


WorkerNext == W_Wake \/ W_Flip \/ W_Write \/ W_Count

----------------------------------------------------------------------------
(* converter.cpp: convert_one *)
NoFramesCapturedNegativeOnly(n) == n < 0

\* line 1488: if (frames_captured <= 0)
NoFramesCaptured(n) == n <= 0

fs_remove_skipped(exists) == exists

\* lines 1483-1484, 1490-1491, 1511-1512: fs::remove(path): whether the file
\* exists afterwards, given whether it existed
fs_remove(exists) == FALSE

CancelledAfterRunIgnored == FALSE

\* line 1481: the cancel flag read after emu.shutdown()
CancelledAfterRun == frontend = "gui" /\ cancel_flag


\* lines 1346-1349: a cancel flag already set returns false at once
C_Entry ==
    /\ mainpc = "entry"
    /\ mainpc' = IF CancelObserved THEN "done" ELSE "parse"
    /\ result' = IF CancelObserved THEN "false" ELSE result
    /\ UNCHANGED replayVars
    /\ UNCHANGED <<s_encoder_opened, s_captured_frames, s_total_frames,
                   s_speed_limiter_disabled, s_pbo_index, s_pbo_initialized,
                   s_pbo_has_data, pbo, s_staging_buffer, s_flipped_buffer,
                   s_encode_has_work, s_encode_shutdown, s_encode_height, wpc, mutex, enc,
                   encStream, lostWrites, tempVideo, tempAudio, outputFile, frontend,
                   cancel_flag, pboAvail, krec, frames_captured, audio_bytes,
                   stopRequested, emuShutdowns, issued, posted, cbCount, cancelAtCb,
                   cancelSeen, lostPending, workerStarted, mapFailed, emulationRan,
                   progressLog, parseVars, calcVars,
                   pp_caller, sizeVars, outputHolds, coreStarted>>

\* lines 1351-1362: krec_parse; a parse failure or an empty Timeline returns false
C_Parse(parseOk, k) ==
    /\ mainpc = "parse"
    /\ krec' = IF parseOk THEN k ELSE krec
    /\ mainpc' = IF parseOk /\ k.total_input_frames # 0 THEN "init" ELSE "done"
    /\ result' = IF parseOk /\ k.total_input_frames # 0 THEN result ELSE "false"
    /\ UNCHANGED replayVars
    /\ UNCHANGED <<s_encoder_opened, s_captured_frames, s_total_frames,
                   s_speed_limiter_disabled, s_pbo_index, s_pbo_initialized,
                   s_pbo_has_data, pbo, s_staging_buffer, s_flipped_buffer,
                   s_encode_has_work, s_encode_shutdown, s_encode_height, wpc, mutex, enc,
                   encStream, lostWrites, tempVideo, tempAudio, outputFile, frontend,
                   cancel_flag, pboAvail, frames_captured, audio_bytes, stopRequested,
                   emuShutdowns, issued, posted, cbCount, cancelAtCb, cancelSeen,
                   lostPending, workerStarted, mapFailed, emulationRan, progressLog, parseVars, calcVars,
                   pp_caller, sizeVars, outputHolds, coreStarted>>

\* part_001 lines 553-581: Emulator::shutdown calls CoreShutdown and frees the core
\* library
EmulatorShutdown(core) == FALSE

\* part_001 lines 356-404: Emulator::init loads the core (line 364) and calls
\* CoreStartup (line 370); it can fail before that, or after it (CoreOverrideVidExt,
\* a plugin that does not load), and a failure returns false with nothing undone
InitLeavesCore(core, started) == core \/ started

\* lines 1384-1388: Emulator::init; on failure convert_one returns false.
\* `started`: init got as far as a successful CoreStartup
C_EmuInit(ok, started) ==
    /\ mainpc = "init"
    /\ ok => started
    /\ mainpc' = IF ok THEN "rom" ELSE "done"
    /\ result' = IF ok THEN result ELSE "false"
    /\ coreStarted' = InitLeavesCore(coreStarted, started)
    /\ UNCHANGED replayVars
    /\ UNCHANGED <<s_encoder_opened, s_captured_frames, s_total_frames,
                   s_speed_limiter_disabled, s_pbo_index, s_pbo_initialized,
                   s_pbo_has_data, pbo, s_staging_buffer, s_flipped_buffer,
                   s_encode_has_work, s_encode_shutdown, s_encode_height, wpc, mutex, enc,
                   encStream, lostWrites, tempVideo, tempAudio, outputFile, frontend,
                   cancel_flag, pboAvail, krec, frames_captured, audio_bytes,
                   stopRequested, emuShutdowns, issued, posted, cbCount, cancelAtCb,
                   cancelSeen, lostPending, workerStarted, mapFailed, emulationRan,
                   progressLog, parseVars, calcVars,
                   pp_caller, sizeVars, outputHolds>>

\* lines 1412-1416
C_OpenRom(ok) ==
    /\ mainpc = "rom"
    /\ mainpc' = IF ok THEN "attach" ELSE "done"
    /\ emuShutdowns' = IF ok THEN emuShutdowns ELSE emuShutdowns + 1
    /\ result' = IF ok THEN result ELSE "false"
    /\ coreStarted' = IF ok THEN coreStarted ELSE EmulatorShutdown(coreStarted)
    /\ UNCHANGED replayVars
    /\ UNCHANGED <<s_encoder_opened, s_captured_frames, s_total_frames,
                   s_speed_limiter_disabled, s_pbo_index, s_pbo_initialized,
                   s_pbo_has_data, pbo, s_staging_buffer, s_flipped_buffer,
                   s_encode_has_work, s_encode_shutdown, s_encode_height, wpc, mutex, enc,
                   encStream, lostWrites, tempVideo, tempAudio, outputFile, frontend,
                   cancel_flag, pboAvail, krec, frames_captured, audio_bytes,
                   stopRequested, issued, posted, cbCount, cancelAtCb, cancelSeen,
                   lostPending, workerStarted, mapFailed, emulationRan, progressLog, parseVars, calcVars,
                   pp_caller, sizeVars, outputHolds>>

\* lines 1422-1427
C_Attach(ok) ==
    /\ mainpc = "attach"
    /\ mainpc' = IF ok THEN "setup" ELSE "done"
    /\ emuShutdowns' = IF ok THEN emuShutdowns ELSE emuShutdowns + 1
    /\ result' = IF ok THEN result ELSE "false"
    /\ coreStarted' = IF ok THEN coreStarted ELSE EmulatorShutdown(coreStarted)
    /\ UNCHANGED replayVars
    /\ UNCHANGED <<s_encoder_opened, s_captured_frames, s_total_frames,
                   s_speed_limiter_disabled, s_pbo_index, s_pbo_initialized,
                   s_pbo_has_data, pbo, s_staging_buffer, s_flipped_buffer,
                   s_encode_has_work, s_encode_shutdown, s_encode_height, wpc, mutex, enc,
                   encStream, lostWrites, tempVideo, tempAudio, outputFile, frontend,
                   cancel_flag, pboAvail, krec, frames_captured, audio_bytes,
                   stopRequested, issued, posted, cbCount, cancelAtCb, cancelSeen,
                   lostPending, workerStarted, mapFailed, emulationRan, progressLog, parseVars, calcVars,
                   pp_caller, sizeVars, outputHolds>>

\* lines 1429-1462: pif_replay_init, frame_capture_init, the callbacks, emu.execute()
C_Setup ==
    /\ mainpc = "setup"
    /\ s_ff_config' = res_size
    /\ s_encoder_opened' = FALSE
    /\ s_captured_frames' = 0
    /\ s_total_frames' = krec.total_input_frames
    /\ s_speed_limiter_disabled' = FALSE
    /\ s_pbo_initialized' = FALSE
    /\ s_pbo_has_data' = FALSE
    /\ emulationRan' = TRUE
    /\ mainpc' = "core"
    /\ pif_replay_init(krec)
    /\ UNCHANGED <<s_pbo_index, pbo, s_staging_buffer, s_flipped_buffer,
                   s_encode_has_work, s_encode_shutdown, s_encode_height, wpc, mutex, enc,
                   encStream, lostWrites, tempVideo, tempAudio, outputFile, frontend,
                   cancel_flag, pboAvail, krec, frames_captured, audio_bytes, result,
                   stopRequested, emuShutdowns, issued, posted, cbCount, cancelAtCb,
                   cancelSeen, lostPending, workerStarted, mapFailed, progressLog, parseVars, calcVars,
                   pp_caller, res_size, sizeReported, encOpens, openFailed,
                   outputHolds, coreStarted>>

\* line 1462: emu.execute() returns once a callback has asked the core to stop
ExecuteReturns ==
    /\ mainpc = "core"
    /\ stopRequested
    /\ mainpc' = "count"
    /\ UNCHANGED replayVars
    /\ UNCHANGED <<s_encoder_opened, s_captured_frames, s_total_frames,
                   s_speed_limiter_disabled, s_pbo_index, s_pbo_initialized,
                   s_pbo_has_data, pbo, s_staging_buffer, s_flipped_buffer,
                   s_encode_has_work, s_encode_shutdown, s_encode_height, wpc, mutex, enc,
                   encStream, lostWrites, tempVideo, tempAudio, outputFile, frontend,
                   cancel_flag, pboAvail, krec, frames_captured, audio_bytes, result,
                   stopRequested, emuShutdowns, issued, posted, cbCount, cancelAtCb,
                   cancelSeen, lostPending, workerStarted, mapFailed, emulationRan,
                   progressLog, parseVars, calcVars,
                   pp_caller, sizeVars, outputHolds, coreStarted>>

\* line 1464: frames_captured = frame_capture_count()
C_Count ==
    /\ mainpc = "count"
    /\ frames_captured' = s_captured_frames
    /\ mainpc' = "close"
    /\ UNCHANGED replayVars
    /\ UNCHANGED <<s_encoder_opened, s_captured_frames, s_total_frames,
                   s_speed_limiter_disabled, s_pbo_index, s_pbo_initialized,
                   s_pbo_has_data, pbo, s_staging_buffer, s_flipped_buffer,
                   s_encode_has_work, s_encode_shutdown, s_encode_height, wpc, mutex, enc,
                   encStream, lostWrites, tempVideo, tempAudio, outputFile, frontend,
                   cancel_flag, pboAvail, krec, audio_bytes, result, stopRequested,
                   emuShutdowns, issued, posted, cbCount, cancelAtCb, cancelSeen,
                   lostPending, workerStarted, mapFailed, emulationRan, progressLog, parseVars, calcVars,
                   pp_caller, sizeVars, outputHolds, coreStarted>>

\* line 1468: encoder.close()
C_Close ==
    /\ mainpc = "close"
    /\ enc' = IF enc = "open" THEN "closed" ELSE enc
    /\ mainpc' = "shutdown"
    /\ UNCHANGED replayVars
    /\ UNCHANGED <<s_encoder_opened, s_captured_frames, s_total_frames,
                   s_speed_limiter_disabled, s_pbo_index, s_pbo_initialized,
                   s_pbo_has_data, pbo, s_staging_buffer, s_flipped_buffer,
                   s_encode_has_work, s_encode_shutdown, s_encode_height, wpc, mutex,
                   encStream, lostWrites, tempVideo, tempAudio, outputFile, frontend,
                   cancel_flag, pboAvail, krec, frames_captured, audio_bytes, result,
                   stopRequested, emuShutdowns, issued, posted, cbCount, cancelAtCb,
                   cancelSeen, lostPending, workerStarted, mapFailed, emulationRan,
                   progressLog, parseVars, calcVars,
                   pp_caller, sizeVars, outputHolds, coreStarted>>

\* lines 1470-1479: audio byte count, emu.shutdown().  The audio plugin creates the
\* temporary audio file in RomOpen when emulation starts; nothing reads it before
\* this point, so whether it exists (plugin present) is drawn here
C_Shutdown(plugin, bytes) ==
    /\ mainpc = "shutdown"
    /\ bytes > 0 => plugin
    /\ audio_bytes' = bytes
    /\ tempAudio' = plugin
    /\ emuShutdowns' = emuShutdowns + 1
    /\ mainpc' = "after"
    /\ coreStarted' = EmulatorShutdown(coreStarted)
    /\ UNCHANGED replayVars
    /\ UNCHANGED <<s_encoder_opened, s_captured_frames, s_total_frames,
                   s_speed_limiter_disabled, s_pbo_index, s_pbo_initialized,
                   s_pbo_has_data, pbo, s_staging_buffer, s_flipped_buffer,
                   s_encode_has_work, s_encode_shutdown, s_encode_height, wpc, mutex, enc,
                   encStream, lostWrites, tempVideo, outputFile, frontend, cancel_flag,
                   pboAvail, krec, frames_captured, result, stopRequested, issued, posted,
                   cbCount, cancelAtCb, cancelSeen, lostPending, workerStarted, mapFailed,
                   emulationRan, progressLog, parseVars, calcVars,
                   pp_caller, sizeVars, outputHolds>>

\* lines 1481-1493: a cancelled session and a session without frames remove the
\* temporary files and return false
C_AfterRun ==
    LET discard == CancelledAfterRun \/ NoFramesCaptured(frames_captured)
    IN
      /\ mainpc = "after"
      /\ tempVideo' = IF discard THEN fs_remove(tempVideo) ELSE tempVideo
      /\ tempAudio' = IF discard THEN fs_remove(tempAudio) ELSE tempAudio
      /\ result' = IF discard THEN "false" ELSE result
      /\ mainpc' = IF discard THEN "done" ELSE "mux"
      /\ UNCHANGED replayVars
      /\ UNCHANGED <<s_encoder_opened, s_captured_frames, s_total_frames,
                     s_speed_limiter_disabled, s_pbo_index, s_pbo_initialized,
                     s_pbo_has_data, pbo, s_staging_buffer, s_flipped_buffer,
                     s_encode_has_work, s_encode_shutdown, s_encode_height, wpc, mutex, enc,
                     encStream, lostWrites, outputFile, frontend, cancel_flag, pboAvail,
                     krec, frames_captured, audio_bytes, stopRequested, emuShutdowns,
                     issued, posted, cbCount, cancelAtCb, cancelSeen, lostPending,
                     workerStarted, mapFailed, emulationRan, progressLog, parseVars, calcVars,
                   pp_caller, sizeVars, outputHolds, coreStarted>>

OutputAlwaysMuxed(bytes, muxOk, temp) == "muxed"

\* lines 1496-1508: mux_video_audio writes the output when it succeeds; with no
\* audio bytes, or when it fails, fs::rename moves the temporary video there
OutputAfterMux(bytes, muxOk, temp) ==
    IF bytes > 0 /\ muxOk THEN "muxed" ELSE IF temp THEN "video" ELSE "none"

\* lines 1495-1515: mux video and audio (progress sentinel -1), or keep the video
\* alone by renaming the temporary video; remove the temporary files; return true
C_Mux(muxOk) ==
    /\ mainpc = "mux"
    /\ progressLog' = IF audio_bytes > 0 THEN ProgressAfter(progressLog, MuxingSentinel) ELSE progressLog
    /\ outputFile' = IF audio_bytes > 0 /\ muxOk THEN TRUE ELSE tempVideo
    /\ outputHolds' = OutputAfterMux(audio_bytes, muxOk, tempVideo)
    /\ tempVideo' = fs_remove(IF audio_bytes > 0 /\ muxOk THEN tempVideo ELSE FALSE)
    /\ tempAudio' = fs_remove(tempAudio)
    /\ result' = "true"
    /\ mainpc' = "done"
    /\ UNCHANGED replayVars
    /\ UNCHANGED <<s_encoder_opened, s_captured_frames, s_total_frames,
                   s_speed_limiter_disabled, s_pbo_index, s_pbo_initialized,
                   s_pbo_has_data, pbo, s_staging_buffer, s_flipped_buffer,
                   s_encode_has_work, s_encode_shutdown, s_encode_height, wpc, mutex, enc,
                   encStream, lostWrites, frontend, cancel_flag, pboAvail, krec,
                   frames_captured, audio_bytes, stopRequested, emuShutdowns, issued,
                   posted, cbCount, cancelAtCb, cancelSeen, lostPending, workerStarted,
                   mapFailed, emulationRan, parseVars, calcVars,
                   pp_caller, sizeVars, coreStarted>>

\* the GUI thread sets g_cancel_flag (Cancel button, window close)
SetCancel ==
    /\ frontend = "gui"
    /\ ~cancel_flag
    /\ mainpc # "done"
    /\ cancel_flag' = TRUE
    /\ cancelAtCb' = cbCount
    /\ UNCHANGED replayVars
    /\ UNCHANGED <<s_encoder_opened, s_captured_frames, s_total_frames,
                   s_speed_limiter_disabled, s_pbo_index, s_pbo_initialized,
                   s_pbo_has_data, pbo, s_staging_buffer, s_flipped_buffer,
                   s_encode_has_work, s_encode_shutdown, s_encode_height, mainpc, wpc,
                   mutex, enc, encStream, lostWrites, tempVideo, tempAudio, outputFile,
                   frontend, pboAvail, krec, frames_captured, audio_bytes, result,
                   stopRequested, emuShutdowns, issued, posted, cbCount, cancelSeen,
                   lostPending, workerStarted, mapFailed, emulationRan, progressLog, parseVars, calcVars,
                   pp_caller, sizeVars, outputHolds, coreStarted>>


----------------------------------------------------------------------------
(* frame_capture.cpp: frame_capture_flush.  convert_one does not call it; it is
   modelled as called once emu.execute() has returned, where the shutdown
   sequence of the capture pipeline belongs *)

\* lines 217-221: drain the pending slot if there is one
FlushBegin ==
    /\ mainpc = "count"
    /\ pp_caller = "callback"
    /\ pp_caller' = "flush"
    /\ mainpc' = IF s_pbo_initialized /\ s_pbo_has_data THEN "pp_wait" ELSE "flush_wait"
    /\ UNCHANGED replayVars
    /\ UNCHANGED <<s_encoder_opened, s_captured_frames, s_total_frames,
                   s_speed_limiter_disabled, s_pbo_index, s_pbo_initialized,
                   s_pbo_has_data, pbo, s_staging_buffer, s_flipped_buffer,
                   s_encode_has_work, s_encode_shutdown, s_encode_height, wpc, mutex, enc,
                   encStream, lostWrites, tempVideo, tempAudio, outputFile, frontend,
                   cancel_flag, pboAvail, krec, frames_captured, audio_bytes, result,
                   stopRequested, emuShutdowns, issued, posted, cbCount, cancelAtCb,
                   cancelSeen, lostPending, workerStarted, mapFailed, emulationRan,
                   progressLog, parseVars, calcVars, sizeVars, outputHolds, coreStarted>>

\* lines 222-224: wait_for_encode(), then cleanup_pbos()
FlushWait ==
    /\ mainpc = "flush_wait"
    /\ mutex = "free"
    /\ wait_for_encode
    /\ mainpc' = IF s_pbo_initialized THEN "stop_lock" ELSE "flushed"
    /\ UNCHANGED replayVars
    /\ UNCHANGED <<s_encoder_opened, s_captured_frames, s_total_frames,
                   s_speed_limiter_disabled, s_pbo_index, s_pbo_initialized,
                   s_pbo_has_data, pbo, s_staging_buffer, s_flipped_buffer,
                   s_encode_has_work, s_encode_shutdown, s_encode_height, wpc, mutex, enc,
                   encStream, lostWrites, tempVideo, tempAudio, outputFile, frontend,
                   cancel_flag, pboAvail, krec, frames_captured, audio_bytes, result,
                   stopRequested, emuShutdowns, issued, posted, cbCount, cancelAtCb,
                   cancelSeen, lostPending, workerStarted, mapFailed, emulationRan,
                   progressLog, pp_caller, parseVars, calcVars, sizeVars, outputHolds, coreStarted>>

frame_capture_flush == FlushBegin \/ FlushWait

----------------------------------------------------------------------------
(* converter.cpp: the A/V scale of mux_video_audio *)

\* The doubles of the computation are kept as exact fractions <<num, den>> in
\* lowest terms with den >= 0; a zero denominator stands for the infinities.
BytesPerSample == 4      \* line 1246: stereo s16le

Abs(n) == IF n < 0 THEN 0 - n ELSE n

RECURSIVE GCD(_, _)
GCD(a, b) == IF b = 0 THEN a ELSE GCD(b, a % b)

Sign(n) == IF n > 0 THEN 1 ELSE IF n < 0 THEN 0 - 1 ELSE 0

Rat(n, d) ==
    IF d = 0 THEN <<Sign(n), 0>>
    ELSE LET g == GCD(Abs(n), Abs(d))
         IN <<Sign(d) * (n \div g), Abs(d) \div g>>

\* a/b * c/d, reduced crosswise before multiplying
RatMul(x, y) ==
    LET a == Rat(x[1], y[2])
        b == Rat(y[1], x[2])
    IN Rat(a[1] * b[1], a[2] * b[2])

RatDiv(x, y) == RatMul(x, IF y[1] < 0 THEN <<0 - y[2], 0 - y[1]>> ELSE <<y[2], y[1]>>)

Positive(x) == x[1] > 0

One == <<1, 1>>
NoScale == <<0, 0>>
NoArgs == [audio_freq |-> 0, audio_bytes |-> 0, frames_captured |-> 0,
           encode_fps |-> <<0, 1>>]

\* line 1246: audio_bytes / (audio_freq * 4.0)
AudioDuration(a) == Rat(a.audio_bytes, a.audio_freq * BytesPerSample)

\* line 1247: frames_captured / encode_fps
VideoDuration(a) == RatDiv(Rat(a.frames_captured, 1), a.encode_fps)

DurationsUsableAudioOnly(ad, vd) == Positive(ad)

\* line 1248: audio_duration > 0 && video_duration > 0
DurationsUsable(ad, vd) == Positive(ad) /\ Positive(vd)

\* lines 1248-1249
ItsScale(a) ==
    IF DurationsUsable(AudioDuration(a), VideoDuration(a))
    THEN RatDiv(AudioDuration(a), VideoDuration(a))
    ELSE One

\* the arguments mux_video_audio is called with
MuxFreqs == {33600, 44100, 48000}
MuxBytes == {0, 4, 33600 * 4, 33600 * 4 * 10, 48000 * 4 * 10}
MuxFrames == {0 - 1, 0, 1, 598, 600}
MuxFps == {<<30, 1>>, <<60, 1>>, <<2997, 50>>}
MuxInputs == [audio_freq : MuxFreqs, audio_bytes : MuxBytes,
              frames_captured : MuxFrames, encode_fps : MuxFps]

\* no frame is going through the flip loop
NoFlip == [stage |-> "idle"]

InitCalcIdle ==
    /\ mux_args = NoArgs
    /\ itsscale = NoScale
    /\ flip = NoFlip

InitMux ==
    /\ mux_args \in MuxInputs
    /\ itsscale = NoScale
    /\ flip = NoFlip

MuxComputeScale ==
    /\ itsscale = NoScale
    /\ mux_args # NoArgs
    /\ itsscale' = ItsScale(mux_args)
    /\ UNCHANGED <<mux_args, flip, replayVars, parseVars, sessionVars>>

----------------------------------------------------------------------------
(* frame_capture.cpp: the vertical flip on the bytes of an RGB24 frame *)
MaxFlipWidth == 2       \* widest frame (pixels)
MaxFlipHeight == 3      \* tallest frame (rows)

\* int stride = width * 3
Stride(width) == width * 3

\* size_t frame_size = stride * height
FrameSize(width, height) == Stride(width) * height

\* if (s_flipped_buffer.size() < frame_size) s_flipped_buffer.resize(frame_size)
Resized(buf, n) == IF Len(buf) < n THEN buf \o [k \in 1..(n - Len(buf)) |-> 0] ELSE buf

\* memcpy(dst + doff, src + soff, n)
Memcpy(dst, doff, src, soff, n) ==
    [k \in 1..Len(dst) |-> IF k > doff /\ k <= doff + n THEN src[soff + (k - doff)] ELSE dst[k]]

\* for (int y = ...; y < height; y++) memcpy(dst + y * stride, src + y * stride, stride)
RECURSIVE CopyLoop(_, _, _, _, _)
CopyLoop(dst, src, stride, height, y) ==
    IF y < height
    THEN CopyLoop(Memcpy(dst, y * stride, src, y * stride, stride), src, stride, height, y + 1)
    ELSE dst

WorkerFlipNoFlip(buf, src, width, height) ==
    CopyLoop(Resized(buf, FrameSize(width, height)), src, Stride(width), height, 0)

\* lines 84-87: for (int y = ...; y < height; y++)
\*     memcpy(s_flipped_buffer + y * stride, s_staging_buffer + (height - 1 - y) * stride, stride)
RECURSIVE WorkerFlipLoop(_, _, _, _, _)
WorkerFlipLoop(dst, src, stride, height, y) ==
    IF y < height
    THEN WorkerFlipLoop(Memcpy(dst, y * stride, src, (height - 1 - y) * stride, stride),
                        src, stride, height, y + 1)
    ELSE dst

\* encode_worker, lines 75-87: resize, then the flip loop
WorkerFlip(buf, src, width, height) ==
    WorkerFlipLoop(Resized(buf, FrameSize(width, height)), src, Stride(width), height, 0)

\* lines 287-290: the loop of the synchronous fallback
RECURSIVE FallbackFlipLoop(_, _, _, _, _)
FallbackFlipLoop(dst, src, stride, height, y) ==
    IF y < height
    THEN FallbackFlipLoop(Memcpy(dst, y * stride, src, (height - 1 - y) * stride, stride),
                          src, stride, height, y + 1)
    ELSE dst

\* frame_capture_callback, lines 282-290: resize, then the flip loop
FallbackFlip(buf, src, width, height) ==
    FallbackFlipLoop(Resized(buf, FrameSize(width, height)), src, Stride(width), height, 0)

\* write_frame(s_flipped_buffer.data(), width, height) writes frame_size bytes
WrittenFrame(buf, width, height) == SubSeq(buf, 1, FrameSize(width, height))

\* frames of distinct bytes, and what s_flipped_buffer holds from earlier
\* frames: nothing, less than a frame, or more than a frame
FlipPatterns == {0, 1, 2}
FlipSource(width, height, p) ==
    [k \in 1..FrameSize(width, height) |-> (k * 37 + p * 101) % 256]
OldBuffers(n) == {<<>>, [k \in 1..(n - 1) |-> 255], [k \in 1..(n + 2) |-> 255]}

InitFlip ==
    /\ mux_args = NoArgs
    /\ itsscale = NoScale
    /\ \E w \in 1..MaxFlipWidth, h \in 1..MaxFlipHeight, p \in FlipPatterns :
         \E old \in OldBuffers(FrameSize(w, h)) :
            flip = [stage |-> "in", width |-> w, height |-> h,
                    src |-> FlipSource(w, h, p), buf |-> old, out |-> <<>>, back |-> <<>>]

\* the worker flips the staging buffer and writes the frame
FlipInWorker ==
    /\ flip.stage = "in"
    /\ \E b \in {WorkerFlip(flip.buf, flip.src, flip.width, flip.height)} :
         flip' = [flip EXCEPT !.stage = "worker", !.buf = b,
                              !.out = WrittenFrame(b, flip.width, flip.height)]
    /\ UNCHANGED <<mux_args, itsscale, replayVars, parseVars, sessionVars>>

\* the fallback flips the pixel buffer and writes the frame
FlipInFallback ==
    /\ flip.stage = "in"
    /\ \E b \in {FallbackFlip(flip.buf, flip.src, flip.width, flip.height)} :
         flip' = [flip EXCEPT !.stage = "fallback", !.buf = b,
                              !.out = WrittenFrame(b, flip.width, flip.height)]
    /\ UNCHANGED <<mux_args, itsscale, replayVars, parseVars, sessionVars>>

\* the written frame goes through the same flip once more
FlipAgain ==
    /\ flip.stage \in {"worker", "fallback"}
    /\ \E b \in {IF flip.stage = "worker"
                 THEN WorkerFlip(flip.buf, flip.out, flip.width, flip.height)
                 ELSE FallbackFlip(flip.buf, flip.out, flip.width, flip.height)} :
         flip' = [flip EXCEPT !.stage = IF flip.stage = "worker" THEN "worker twice"
                                        ELSE "fallback twice",
                              !.buf = b,
                              !.back = WrittenFrame(b, flip.width, flip.height)]
    /\ UNCHANGED <<mux_args, itsscale, replayVars, parseVars, sessionVars>>

----------------------------------------------------------------------------
(* One convert_one session in a fresh process *)
InitSession ==
    /\ s_encoder_opened = FALSE
    /\ s_captured_frames = 0
    /\ s_total_frames = 0
    /\ s_speed_limiter_disabled = FALSE
    /\ s_pbo_index = 0
    /\ s_pbo_initialized = FALSE
    /\ s_pbo_has_data = FALSE
    /\ pbo = [i \in 0..1 |-> BlankBuffer]
    /\ s_staging_buffer = BlankBuffer
    /\ s_flipped_buffer = BlankBuffer
    /\ s_encode_has_work = FALSE
    /\ s_encode_shutdown = FALSE
    /\ s_encode_height = 0
    /\ mainpc = "entry"
    /\ wpc = "none"
    /\ mutex = "free"
    /\ enc = "new"
    /\ encStream = <<>>
    /\ lostWrites = 0
    /\ tempVideo = FALSE
    /\ tempAudio = FALSE
    /\ outputFile = FALSE
    /\ frontend \in {"cli", "gui"}
    /\ cancel_flag = FALSE
    /\ pboAvail \in BOOLEAN
    /\ krec = NoKrec
    /\ frames_captured = 0
    /\ audio_bytes = 0
    /\ result = "none"
    /\ stopRequested = FALSE
    /\ emuShutdowns = 0
    /\ issued = 0
    /\ posted = 0
    /\ cbCount = 0
    /\ cancelAtCb = 0
    /\ cancelSeen = FALSE
    /\ lostPending = FALSE
    /\ workerStarted = FALSE
    /\ mapFailed = FALSE
    /\ emulationRan = FALSE
    /\ progressLog = <<>>
    /\ pp_caller = "callback"
    /\ res_size \in RequestedSizes
    /\ sizeReported = FALSE
    /\ s_ff_config = NoSize
    /\ encOpens = <<>>
    /\ openFailed = FALSE
    /\ outputHolds = "none"
    /\ coreStarted = FALSE

\* no session in progress (the replay synchronizer and the parser run on their own)
InitSessionIdle == InitSession /\ frontend = "cli" /\ pboAvail /\ res_size = RenderSize

FrameCallback ==
    \/ FC_Enter
    \/ \E ready \in BOOLEAN, openOk \in BOOLEAN : FC_Capture(ready, openOk)
    \/ PP_Wait
    \/ \E mapOk \in BOOLEAN : PP_Map(mapOk)
    \/ PP_Copy
    \/ PP_Post
    \/ FC_Issue
    \/ StopLock
    \/ StopJoin

\* convert_one up to the return of emu.execute()
RunEmulation ==
    \/ C_Entry
    \/ \E parseOk \in BOOLEAN, k \in SessionTimelines : C_Parse(parseOk, k)
    \/ \E ok \in BOOLEAN, started \in BOOLEAN : C_EmuInit(ok, started)
    \/ \E ok \in BOOLEAN : C_OpenRom(ok)
    \/ \E ok \in BOOLEAN : C_Attach(ok)
    \/ C_Setup
    \/ ExecuteReturns

ConvertOne ==
    \/ RunEmulation
    \/ C_Count
    \/ C_Close
    \/ \E plugin \in BOOLEAN, bytes \in {0, 1} : C_Shutdown(plugin, bytes)
    \/ C_AfterRun
    \/ \E muxOk \in BOOLEAN : C_Mux(muxOk)

Next == ConvertOne \/ FrameCallback \/ PifPoll \/ WorkerNext \/ SetCancel

\* main.cpp lines 134-153 and gui_main.cpp lines 583-608: the loop over the files of a
\* batch calls convert_one for the next file.  convert_one's locals (KrecData,
\* Emulator, FFmpegEncoder, the paths of the new file) start afresh; the statics of
\* frame_capture.cpp and pif_replay.cpp, the worker thread among them, are what the
\* previous session left.  The GUI loop stops at a set cancel flag
NextFile ==
    /\ mainpc = "done"
    /\ ~CancelObserved
    /\ mainpc' = "entry"
    /\ krec' = NoKrec
    /\ frames_captured' = 0
    /\ audio_bytes' = 0
    /\ result' = "none"
    /\ enc' = "new"
    /\ encStream' = <<>>
    /\ lostWrites' = 0
    /\ tempVideo' = FALSE
    /\ tempAudio' = FALSE
    /\ outputFile' = FALSE
    /\ stopRequested' = FALSE
    /\ emuShutdowns' = 0
    /\ issued' = 0
    /\ posted' = 0
    /\ cbCount' = 0
    /\ cancelAtCb' = 0
    /\ cancelSeen' = FALSE
    /\ lostPending' = FALSE
    /\ workerStarted' = FALSE
    /\ mapFailed' = FALSE
    /\ emulationRan' = FALSE
    /\ progressLog' = <<>>
    /\ sizeReported' = FALSE
    /\ encOpens' = <<>>
    /\ openFailed' = FALSE
    /\ outputHolds' = "none"
    /\ UNCHANGED replayVars
    /\ UNCHANGED <<captureVars, wpc, mutex, frontend, cancel_flag, pboAvail, pp_caller,
                   res_size, s_ff_config, parseVars, calcVars, coreStarted>>

\* the files of a batch converted one after another in one process
NextBatch == Next \/ NextFile


InitSpec == InitSession /\ InitReplay /\ InitParseIdle /\ InitCalcIdle

Spec == InitSpec /\ [][Next]_vars

\* a process whose GL context has the PBO entry points, at the native render size
InitBatch == InitSpec /\ pboAvail /\ res_size = RenderSize

SpecBatch == InitBatch /\ [][NextBatch]_vars

----------------------------------------------------------------------------
(* The replay synchronizer and the parser on their own *)
ReplayInit == \E k \in ReplayTimelines : pif_replay_init(k) /\ UNCHANGED <<parseVars, sessionVars, calcVars>>
ReplayReset == pif_replay_reset_frame_sync /\ UNCHANGED <<parseVars, sessionVars, calcVars>>
ReplayPoll == \E pif \in PifInputs : pif_replay_callback(pif) /\ UNCHANGED <<parseVars, sessionVars, calcVars>>

NextReplay == ReplayInit \/ ReplayReset \/ ReplayPoll

InitSpecReplay == InitReplay /\ InitParseIdle /\ InitSessionIdle /\ InitCalcIdle

SpecReplay == InitSpecReplay /\ [][NextReplay]_vars

(* The synchronizer over Timelines whose input_data need not be a whole number of
   frames: krec_parse appends input records of any length as they are, so a
   last record shorter than a frame leaves a partial frame at the end. *)
TailBytes == 3          \* bytes of the partial frame (fewer than one player's word)

\* n whole frames followed by a record of `extra` bytes
RaggedTimeline(np, n, extra) ==
    [num_players |-> np,
     input_data |-> [k \in 1..(n * ClampPlayers(np) * 4 + extra) |-> DataByte(k)],
     total_input_frames |-> n + (IF extra > 0 THEN 1 ELSE 0),
     delay_frames |-> 0]

AnyLengthTimelines ==
    {RaggedTimeline(np, n, extra) : np \in {0, 2}, n \in 0..MaxFrames, extra \in {0, TailBytes}}

ReplayInitAnyLength ==
    \E k \in AnyLengthTimelines : pif_replay_init(k) /\ UNCHANGED <<parseVars, sessionVars, calcVars>>

NextReplayAnyLength == ReplayInitAnyLength \/ ReplayReset \/ ReplayPoll

SpecReplayAnyLength == InitSpecReplay /\ [][NextReplayAnyLength]_vars

(* krec_parse on its own: every generated log is parsed once. *)
NextParse == KrecParseHeader \/ KrecParseRecord \/ KrecParseReturn

InitSpecParse == InitParse /\ InitReplay /\ InitSessionIdle /\ InitCalcIdle

SpecParse == InitSpecParse /\ [][NextParse]_vars

InitSpecParseAnyLength ==
    InitParseAnyLength /\ InitReplay /\ InitSessionIdle /\ InitCalcIdle

SpecParseAnyLength == InitSpecParseAnyLength /\ [][NextParse]_vars

InitSpecParseDamaged ==
    InitParseDamaged /\ InitReplay /\ InitSessionIdle /\ InitCalcIdle

SpecParseDamaged == InitSpecParseDamaged /\ [][NextParse]_vars

\* a session whose emulation is followed by frame_capture_flush
NextFlush ==
    RunEmulation \/ FrameCallback \/ PifPoll \/ WorkerNext \/ SetCancel
        \/ frame_capture_flush

SpecFlush == InitSpec /\ [][NextFlush]_vars

NextFlipBytes == FlipInWorker \/ FlipInFallback \/ FlipAgain

InitSpecFlipBytes == InitFlip /\ InitReplay /\ InitParseIdle /\ InitSessionIdle

SpecFlipBytes == InitSpecFlipBytes /\ [][NextFlipBytes]_vars

NextMux == MuxComputeScale

InitSpecMux == InitMux /\ InitReplay /\ InitParseIdle /\ InitSessionIdle

SpecMux == InitSpecMux /\ [][NextMux]_vars

----------------------------------------------------------------------------
\* the Timeline the recorded records stand for: one frame per record, a
\* zero-length record as playerCount*4 zero bytes
ExpectedData(recs, np) ==
    Concat([j \in 1..Len(recs) |->
              IF recs[j] = <<>> THEN Zeros(ClampPlayers(np) * 4) ELSE recs[j]])

\* C10: for every replay log whose body is N zero-length input records followed
\* by M input records of playerCount*4 bytes, krec_parse yields
\* total_input_frames = N+M, input_data of (N+M)*playerCount*4 bytes (N all-zero
\* frames, then the payloads in order) and delay_frames = N
C10_ParseDelayThenInput ==
    (parsed.stage = "done" /\ file.magic \in {"KRC1", "KRC0"}) =>
        /\ parsed.ok
        /\ parsed.total_input_frames = Len(recorded.records)
        /\ Len(parsed.input_data) =
               Len(recorded.records) * ClampPlayers(file.num_players) * 4
        /\ parsed.input_data = ExpectedData(recorded.records, file.num_players)
        /\ parsed.delay_frames = recorded.delays

\* the same statement for the files krec_parse does not reject as too short
C10_ParseDelayThenInputLongEnough ==
    (parsed.stage = "done" /\ file.magic \in {"KRC1", "KRC0"} /\ FileLen(file) >= MinFileLen) =>
        /\ parsed.ok
        /\ parsed.total_input_frames = Len(recorded.records)
        /\ parsed.input_data = ExpectedData(recorded.records, file.num_players)
        /\ parsed.delay_frames = recorded.delays

----------------------------------------------------------------------------
\* C1: between two consecutive calls of pif_replay_reset_frame_sync,
\* s_input_frame_index increases by at most 1, for any number of polls and any
\* commands on the channels
C1_AtMostOnePerTick ==
    /\ s_input_frame_index >= idxAtReset
    /\ s_input_frame_index - idxAtReset <= 1

\* four polls in one tick have advanced the Timeline by exactly 1
C1_Witness ==
    /\ pollsThisTick = MaxPolls
    /\ s_input_frame_index = idxAtReset + 1
    /\ s_krec # NoKrec
    /\ HasInputFrame(s_krec, s_input_frame_index)

----------------------------------------------------------------------------
(* The capture pipeline and the session *)

\* the threads are scheduled: the encode worker once notified, and the
\* emulation thread inside stop_encode_thread
FairSpec == Spec /\ WF_vars(WorkerNext) /\ WF_vars(StopLock \/ StopJoin)

\* emulation was stopped because the replay ran out of input
EndedByExhaustion == stopRequested /\ ~cancelSeen /\ s_replay_finished

\* convert_one has left emu.execute()
EmulationEnded == mainpc \in {"count", "close", "shutdown", "after", "mux", "done"} /\ emulationRan

\* C2: process_pbo_async sets s_encode_has_work to true only in a state where it
\* is false: no second job is posted while the previous one has not been taken
C2_PostOnlyWhenIdle == [][posted' # posted => ~s_encode_has_work]_vars

\* the producer has just posted its second job
C2_Witness ==
    /\ posted = 2
    /\ s_encode_has_work
    /\ mainpc = "fc_issue"

\* C3: frames reach the encoder in the order their readbacks were issued: the
\* written frames are readbacks 1..issued, each later than the one before it
C3_FifoOrder ==
    /\ \A i \in 1..Len(encStream) : FrameId(encStream[i]) \in 1..issued
    /\ \A i, j \in 1..Len(encStream) :
           i < j => FrameId(encStream[i]) < FrameId(encStream[j])

\* the worker has written two frames of the asynchronous path
C3_Witness ==
    /\ pboAvail
    /\ posted >= 2
    /\ FrameIds(encStream) = <<1, 2>>

\* C4: in an asynchronous session that ends by replay exhaustion without
\* cancellation, every readback issued has been written exactly once when
\* convert_one has closed the encoder
C4_AllIssuedWritten ==
    (enc = "closed" /\ EndedByExhaustion /\ pboAvail /\ ~mapFailed) =>
        FrameIds(encStream) = [i \in 1..issued |-> i]

\* C5: a session that ends has drained the pending slot, waited for the worker,
\* joined it and released the buffers: none of its ways of ending skips the drain
\* or the join
C5_ShutdownSequence ==
    (EmulationEnded /\ workerStarted) =>
        /\ wpc = "joined"
        /\ ~s_pbo_initialized
        /\ ~s_pbo_has_data
        /\ ~lostPending

\* C6: once a callback has observed the cancel flag and the worker is gone, the
\* posted jobs have all been written and no pending readback was given up
C6_InFlightDrained ==
    (cancelSeen /\ wpc = "joined") =>
        /\ ~s_encode_has_work
        /\ Len(encStream) = posted
        /\ ~lostPending

\* the part of C6 about posted jobs: the worker leaves only with no job posted,
\* and has written every job it took
C6_PostedJobsWritten ==
    (wpc \in {"exited", "joined"}) =>
        /\ ~s_encode_has_work
        /\ Len(encStream) + lostWrites = posted

C7_Safety ==
    /\ cancel_flag =>
           /\ issued <= cancelAtCb
           /\ posted <= cancelAtCb
           /\ Len(encStream) <= cancelAtCb
    /\ (cancel_flag /\ cbCount > cancelAtCb) =>
           /\ cancelSeen
           /\ mainpc \in {"stop_lock", "stop_join"} \/ stopRequested
           /\ (workerStarted /\ stopRequested) => wpc = "joined"

\* C7: when the cancel flag is set after k frame callbacks, no later callback
\* issues a readback or posts a job, at most k frames are written, emulation stop
\* is requested, and the worker exits and is joined (stop_encode_thread returns)
C7_CancelStops ==
    /\ []C7_Safety
    /\ [][(cancel_flag /\ cbCount > cancelAtCb) =>
              (issued' = issued /\ posted' = posted)]_vars
    /\ (cancel_flag /\ cbCount > cancelAtCb) ~> stopRequested

\* cancelled after one callback with the worker running: stopped and joined
C7_Witness ==
    /\ cancel_flag
    /\ cancelAtCb >= 1
    /\ cbCount > cancelAtCb
    /\ workerStarted
    /\ wpc = "joined"
    /\ stopRequested

\* C8: convert_one returns false and leaves no temporary file whenever the
\* captured-frame count is zero after emulation; it never returns true with zero
\* frames
C8_ZeroFramesFails ==
    (mainpc = "done" /\ emulationRan) =>
        /\ frames_captured = 0 => (result = "false" /\ ~tempVideo /\ ~tempAudio)
        /\ result = "true" => frames_captured > 0

\* the encoder had been opened (the temporary video existed), no frame was
\* counted, and the session failed with the files removed
C8_Witness ==
    /\ mainpc = "done"
    /\ emulationRan
    /\ s_encoder_opened
    /\ frames_captured = 0
    /\ result = "false"
    /\ ~tempVideo
    /\ ~tempAudio

----------------------------------------------------------------------------
(* The replay synchronizer over a whole session *)

\* the frames of a Timeline: whole frames of its input data
TimelineFrames(kd) == Len(kd.input_data) \div BytesPerFrame(kd)

Capturing == mainpc \in {"fc_screen", "pp_wait", "pp_map", "pp_copy", "pp_post", "fc_issue"}

C12_FinishedState ==
    s_replay_finished =>
        /\ pif_out = PifEntry(pif_in)
        /\ ~Capturing

C12_FinishedStep ==
    s_replay_finished =>
        /\ s_replay_finished'
        /\ s_input_frame_index' = s_input_frame_index
        /\ consumed' = consumed
        /\ s_cached_input' = s_cached_input
        /\ issued' = issued /\ posted' = posted
        /\ cbCount' # cbCount =>
               /\ stopRequested' \/ mainpc' = "stop_lock"
               /\ ~Capturing'

\* C12: once finished is true it stays true for the rest of the session; from
\* then on a poll reads no Timeline frame, leaves the index and every response
\* buffer as they were, and the next frame callback asks the core to stop
\* without capturing a frame
C12_FinishedIsTerminal == []C12_FinishedState /\ [][C12_FinishedStep]_vars

\* after the replay finished, a status poll has run (only a controller read
\* can end the replay) and the frame callback has asked the core to stop
C12_Witness ==
    /\ s_replay_finished
    /\ pif_in[0].cmd = JCMD_STATUS
    /\ stopRequested
    /\ ~cancelSeen
    /\ issued > 0

\* C13: a session started by pif_replay_init and driven by a sequence of reset
\* ticks and polls writes the same response bytes and reaches the same statics
\* as the same Timeline and sequence in a process that ran no session before
C13_Deterministic ==
    /\ twin.st = ReplayState
    /\ twin.out = pif_out

\* a second session, started after one that read frames, has itself read a
\* frame and answered a controller read
C13_Witness ==
    /\ twin.after
    /\ s_input_frame_index >= 1
    /\ pif_in[0].cmd = JCMD_CONTROLLER_READ
    /\ pif_out[0].rx_buf[0] # Untouched

----------------------------------------------------------------------------
(* The A/V scale *)

\* (audioByteCount * requestedFrameRate) / (4 * audioSampleRate * capturedFrameCount)
ScaleFormula(a) ==
    RatDiv(RatMul(Rat(a.audio_bytes, 1), a.encode_fps),
           RatMul(Rat(4 * a.audio_freq, 1), Rat(a.frames_captured, 1)))

\* C14: the scale equals audio_bytes * fps / (4 * audio_freq * frames) when
\* both durations are positive and exactly 1 otherwise; 10 s of audio at
\* 33600 Hz against 598 frames at 60 fps give 600/598
C14_ScaleValue ==
    itsscale # NoScale =>
        /\ (Positive(AudioDuration(mux_args)) /\ Positive(VideoDuration(mux_args)))
               => itsscale = ScaleFormula(mux_args)
        /\ ~(Positive(AudioDuration(mux_args)) /\ Positive(VideoDuration(mux_args)))
               => itsscale = One
        /\ mux_args = [audio_freq |-> 33600, audio_bytes |-> 33600 * 4 * 10,
                       frames_captured |-> 598, encode_fps |-> <<60, 1>>]
               => itsscale = Rat(600, 598)

\* the scale of the example has been computed
C14_Witness ==
    /\ mux_args = [audio_freq |-> 33600, audio_bytes |-> 33600 * 4 * 10,
                   frames_captured |-> 598, encode_fps |-> <<60, 1>>]
    /\ itsscale = <<300, 299>>

----------------------------------------------------------------------------
(* Ownership of the CPU buffers *)

\* the emulation thread is inside the memcpy into s_staging_buffer
ProducerInStaging == mainpc = "pp_copy"

\* the worker is inside the flip loop, reading s_staging_buffer
WorkerInStaging == wpc = "flip"

\* encode_worker is running
WorkerRunning == wpc \in {"wait", "flip", "write", "count"}

\* C15: the staging buffer is never accessed by both threads at once: the
\* producer copies into it only while s_encode_has_work is false, the worker
\* reads it only between seeing the flag true and clearing it, and while the
\* worker runs the emulation thread never takes the path that uses
\* s_flipped_buffer
C15_BufferOwnership ==
    /\ ~(ProducerInStaging /\ WorkerInStaging)
    /\ ProducerInStaging => ~s_encode_has_work
    /\ WorkerInStaging => (s_encode_has_work /\ mutex = "worker")
    /\ WorkerRunning => (pboAvail /\ s_pbo_initialized)

\* the producer copies the next frame into the staging buffer while the worker
\* is still writing the previous one from the flipped buffer
C15_Witness ==
    /\ ProducerInStaging
    /\ wpc = "write"
    /\ posted >= 1

----------------------------------------------------------------------------
(* Damaged logs *)

\* C16: for a log whose record is cut off by the end of the file or carries an
\* unknown type, krec_parse returns true with exactly the frames of the
\* complete input records before the bad point
C16_DamagedLogParses ==
    (parsed.stage = "done" /\ file.magic \in {"KRC1", "KRC0"}) =>
        /\ parsed.ok
        /\ parsed.total_input_frames = recorded.good
        /\ parsed.input_data =
               ExpectedData(Prefix(recorded.records, recorded.good), file.num_players)

\* the same statement for the files krec_parse does not reject as too short
C16_DamagedLogParsesLongEnough ==
    (parsed.stage = "done" /\ file.magic \in {"KRC1", "KRC0"}
        /\ FileLen(file) >= MinFileLen) =>
        /\ parsed.ok
        /\ parsed.total_input_frames = recorded.good
        /\ parsed.input_data =
               ExpectedData(Prefix(recorded.records, recorded.good), file.num_players)

----------------------------------------------------------------------------
(* Status and reset commands *)

\* the last poll carried a status or reset command on channel i, with the
\* buffers a controller channel has
StatusAsked(i) ==
    /\ pif_in[i].tx /\ pif_in[i].rx /\ pif_in[i].rx_buf
    /\ pif_in[i].cmd \in {JCMD_STATUS, JCMD_RESET}

\* channel i holds the descriptor 0x00, 0x05, 0x00
StatusAnswered(i) ==
    /\ pif_out[i].rx_buf[0] = 0
    /\ pif_out[i].rx_buf[1] = 5
    /\ pif_out[i].rx_buf[2] = 0

\* C17: in a session, every status or reset command on the channel of a player
\* is answered with the descriptor 0x00, 0x05, 0x00, whatever the recorded
\* input and the frame index, and also when the replay has finished
C17_StatusAlwaysAnswered ==
    (s_krec # NoKrec /\ twin.polled) =>
        \A i \in 0..3 :
            (i < ClampPlayers(s_krec.num_players) /\ StatusAsked(i)) => StatusAnswered(i)

\* the part of C17 that holds: the descriptor is written as long as the replay
\* has not finished
C17_StatusAnsweredWhileRunning ==
    (s_krec # NoKrec /\ twin.polled /\ ~s_replay_finished) =>
        \A i \in 0..3 :
            (i < ClampPlayers(s_krec.num_players) /\ StatusAsked(i)) => StatusAnswered(i)

----------------------------------------------------------------------------
(* The synchronous fallback against the asynchronous path with flush *)

\* the rendered frames 1..n as the encoder should receive them: flipped, in order
Delivered(n) == [i \in 1..n |-> FlipRows(BlankBuffer, Pixels(i), ScreenHeight)]

\* in fallback mode no worker exists and every callback has written and
\* counted its own frame when it returns
FallbackWritesOwnFrame ==
    ~pboAvail =>
        /\ ~workerStarted /\ wpc = "none" /\ ~s_pbo_initialized
        /\ encStream = Delivered(issued)
        /\ s_captured_frames = issued

\* C18: the fallback path and the asynchronous path followed by
\* frame_capture_flush deliver the same frames: each delivers every rendered
\* frame it captured, flipped, in order
C18_FallbackEquivalent ==
    /\ FallbackWritesOwnFrame
    /\ (pboAvail /\ mainpc = "flushed" /\ ~mapFailed) => encStream = Delivered(issued)

\* the same statement for sessions that are not cancelled
C18_FallbackEquivalentNoCancel ==
    /\ FallbackWritesOwnFrame
    /\ (pboAvail /\ mainpc = "flushed" /\ ~mapFailed /\ ~cancelSeen)
           => encStream = Delivered(issued)

----------------------------------------------------------------------------
(* The lazy open of the encoder *)

\* the encoder has been opened, and the requested size was not the rendered one
OpenedAdapted == encOpens # <<>> /\ res_size # RenderSize

\* C19: the encoder is opened at most once in a session, by the first frame
\* callback that sees positive render dimensions, with the rendered size even
\* when another size was requested; no frame reaches the encoder before a
\* successful open; a session is stopped only by a failed open, the end of the
\* replay or a cancel, never by a size mismatch
C19_LazyOpen ==
    /\ Len(encOpens) <= 1
    /\ \A i \in 1..Len(encOpens) : encOpens[i] = RenderSize
    /\ s_encoder_opened <=> (encOpens # <<>>)
    /\ sizeReported <=> (encOpens # <<>> \/ openFailed)
    /\ (encStream # <<>> \/ issued > 0 \/ lostWrites > 0) => encOpens # <<>>
    /\ stopRequested => (openFailed \/ s_replay_finished \/ cancelSeen)

C19_Witness ==
    /\ OpenedAdapted
    /\ Len(encStream) >= 2
    /\ ~stopRequested

\* C20: when the encoder fails to open on the first frame, the core is asked
\* to stop, no frame is captured or counted, no worker thread and no capture
\* slot is created, and convert_one returns false
C20_OpenFailureAborts ==
    openFailed =>
        /\ stopRequested
        /\ ~s_encoder_opened /\ encOpens = <<>>
        /\ issued = 0 /\ posted = 0 /\ encStream = <<>> /\ lostWrites = 0
        /\ s_captured_frames = 0 /\ frames_captured = 0 /\ progressLog = <<>>
        /\ ~workerStarted /\ wpc = "none"
        /\ ~s_pbo_initialized /\ ~s_pbo_has_data
        /\ ~outputFile
        /\ mainpc = "done" => (result = "false" /\ ~tempVideo /\ ~tempAudio)

C20_Witness ==
    /\ openFailed
    /\ ~cancel_flag
    /\ ~s_replay_finished
    /\ mainpc = "done"
    /\ result = "false"

----------------------------------------------------------------------------
(* Closing the encoder *)

\* convert_one has called encoder.close()
PastClose == emulationRan /\ mainpc \in {"shutdown", "after", "mux", "done"}

\* the worker is inside write_frame, or has a job that will reach it
WriteAhead == wpc \in {"flip", "write"} \/ (wpc = "wait" /\ s_encode_has_work)

\* the temporary video is muxed or renamed only after encoder.close()
CloseBeforeMux ==
    /\ mainpc = "mux" => enc # "open"
    /\ outputFile => enc = "closed"

\* C21: encoder.close() comes after the last write_frame has returned and
\* before the mux or rename: once convert_one has called close no write_frame
\* is running or still to come, none has run on the closed encoder, and the
\* temporary video is muxed or renamed only with the encoder closed
C21_CloseAfterLastWrite ==
    /\ PastClose => ~WriteAhead
    /\ lostWrites = 0
    /\ CloseBeforeMux

\* the same statement for sessions on the synchronous fallback
C21_CloseAfterLastWriteFallback ==
    ~pboAvail =>
        /\ PastClose => ~WriteAhead
        /\ lostWrites = 0
        /\ CloseBeforeMux

----------------------------------------------------------------------------
(* The progress callback *)

IsFrameProgress(current) == current # MuxingSentinel

\* the per-frame progress calls made so far
FrameProgress == SelectSeq(progressLog, IsFrameProgress)

\* current = 1, 2, 3, ... in this order
CountsUp(log) == log = [i \in 1..Len(log) |-> i]

\* no per-frame call follows a sentinel call
SentinelLast ==
    \A i, j \in 1..Len(progressLog) :
        (i < j /\ progressLog[i] = MuxingSentinel) => progressLog[j] = MuxingSentinel

\* the worker has returned from write_frame and not yet reported the frame
ReportPending == IF wpc = "count" THEN 1 ELSE 0

\* C22: with a progress callback installed, it is called once for each frame
\* written to the encoder, with current = 1, 2, 3, ... in increasing order, and
\* the muxing sentinel call comes after the last per-frame call of the session
C22_ProgressPerFrame ==
    frontend = "gui" =>
        /\ CountsUp(FrameProgress)
        /\ Len(FrameProgress) + ReportPending = Len(encStream)
        /\ SentinelLast

\* the per-frame calls count the write_frame calls, written or not
C22_ProgressPerWriteCall ==
    frontend = "gui" =>
        /\ CountsUp(FrameProgress)
        /\ Len(FrameProgress) + ReportPending = Len(encStream) + lostWrites

\* the same statement as C22 for sessions on the synchronous fallback
C22_ProgressPerFrameFallback ==
    (frontend = "gui" /\ ~pboAvail) =>
        /\ CountsUp(FrameProgress)
        /\ Len(FrameProgress) = Len(encStream)
        /\ SentinelLast

----------------------------------------------------------------------------
(* The two capture slots *)

\* between two steps of the asynchronous path: the slot that will be drained
\* next holds the latest readback, and no job is posted before a readback
LagState ==
    /\ s_pbo_index \in {0, 1}
    /\ posted <= issued
    /\ issued = 0 => (posted = 0 /\ ~s_pbo_has_data)
    /\ (pboAvail /\ s_pbo_has_data) => pbo[PrevSlot] = Pixels(issued)
    /\ (pboAvail /\ mainpc = "core" /\ issued > 0) => posted < issued

\* a job is posted: it carries the readback issued by the callback before
JobIsPreviousFrame ==
    posted' # posted =>
        /\ issued >= 1
        /\ s_pbo_has_data
        /\ s_staging_buffer = Pixels(issued)
        /\ s_staging_buffer = pbo[PrevSlot]

\* a readback is issued: it goes to the slot that was not drained, the drained
\* slot keeps its content, and the index toggles
ReadbackIntoOtherSlot ==
    (pboAvail /\ issued' # issued) =>
        /\ pbo'[s_pbo_index] = Pixels(issued + 1)
        /\ pbo'[PrevSlot] = pbo[PrevSlot]
        /\ s_pbo_index' = 1 - s_pbo_index
        /\ s_pbo_has_data'

\* C23: the asynchronous path runs one frame behind: the first capturing
\* callback posts nothing, a job posted in a later callback carries the frame
\* whose readback the callback before it issued, the slot drained is never the
\* slot that receives the new readback, and s_pbo_index toggles between 0 and 1
\* on every captured frame
C23_OneFrameLag ==
    /\ []LagState
    /\ [][JobIsPreviousFrame /\ ReadbackIntoOtherSlot]_vars

\* the third capturing callback has posted readback 2 and is about to issue
\* readback 3 into slot 0
C23_Witness ==
    /\ pboAvail
    /\ mainpc = "fc_issue"
    /\ issued = 2
    /\ posted = 2
    /\ s_staging_buffer = Pixels(2)
    /\ s_pbo_index = 0

----------------------------------------------------------------------------
(* Progress of the two threads *)

\* both threads are scheduled: the worker, and the emulation thread where it
\* waits on a condition variable or joins
FairThreadsSpec ==
    Spec /\ WF_vars(WorkerNext) /\ WF_vars(StopLock \/ StopJoin) /\ WF_vars(PP_Wait)

\* wait_for_encode returns, and stop_encode_thread returns from the join
WaitsReturn ==
    /\ (mainpc = "pp_wait") ~> (mainpc = "pp_map")
    /\ (mainpc = "stop_lock") ~> (mainpc = "stop_join")
    /\ (mainpc = "stop_join") ~> (wpc = "joined")

\* C24: with the encode worker scheduled fairly neither thread blocks for
\* ever: every wait_for_encode returns, every posted job is eventually written
\* to the encoder, and the join of stop_encode_thread returns, with shutdown
\* signalled while a job is pending, being written, or with the worker idle
C24_NoThreadBlocks ==
    /\ WaitsReturn
    /\ \A n \in 1..MaxCallbacks : (posted >= n) ~> (Len(encStream) >= n)

\* the worker eventually calls write_frame for every posted job
C24_NoThreadBlocksWriteCalls ==
    /\ WaitsReturn
    /\ \A n \in 1..MaxCallbacks : (posted >= n) ~> (Len(encStream) + lostWrites >= n)

----------------------------------------------------------------------------
(* The steps of one encode job *)

\* write_frame calls made so far
WriteCalls == Len(encStream) + lostWrites

\* the worker takes a job: it flips the staging buffer and gives it back, with
\* nothing written or counted yet
JobFlipStep ==
    (wpc = "flip" /\ wpc' # "flip") =>
        /\ s_encode_has_work /\ ~s_encode_has_work'
        /\ s_flipped_buffer' = FlipRows(s_flipped_buffer, s_staging_buffer, s_encode_height)
        /\ wpc' = "write"
        /\ WriteCalls' = WriteCalls
        /\ s_captured_frames' = s_captured_frames

\* then it writes the flipped frame, not yet counted
JobWriteStep ==
    (wpc = "write" /\ wpc' # "write") =>
        /\ WriteCalls' = WriteCalls + 1
        /\ enc = "open" => encStream' = Append(encStream, s_flipped_buffer)
        /\ s_captured_frames' = s_captured_frames
        /\ progressLog' = progressLog
        /\ wpc' = "count"

\* then it counts the frame and reports it
JobCountStep ==
    (wpc = "count" /\ wpc' # "count") =>
        /\ s_captured_frames' = s_captured_frames + 1
        /\ frontend = "gui" => progressLog' = Append(progressLog, s_captured_frames')
        /\ WriteCalls' = WriteCalls
        /\ wpc' = "wait"

\* nothing but these steps writes or counts in a session with a worker
OnlyWorkerWrites ==
    (pboAvail /\ (WriteCalls' # WriteCalls \/ s_captured_frames' # s_captured_frames)) =>
        wpc \in {"write", "count"}

\* C25: for each job the worker flips the staging buffer, clears
\* s_encode_has_work, writes the flipped frame, increments s_captured_frames
\* and calls the progress callback, in this order; s_captured_frames never
\* exceeds the number of write_frame calls and equals it when the worker is idle
C25_JobOrder ==
    /\ [](s_captured_frames <= WriteCalls)
    /\ [](wpc # "count" => s_captured_frames = WriteCalls)
    /\ [](wpc = "count" => s_captured_frames + 1 = WriteCalls)
    /\ [][JobFlipStep /\ JobWriteStep /\ JobCountStep /\ OnlyWorkerWrites]_vars

\* the worker is idle after two jobs
C25_Witness ==
    /\ wpc = "wait"
    /\ ~s_encode_has_work
    /\ posted = 2
    /\ s_captured_frames = 2
    /\ WriteCalls = 2

----------------------------------------------------------------------------
(* Controller reads *)

\* byte k (0 = first in the log) of player i's word in Timeline frame f
FrameByte(kd, f, i, k) == kd.input_data[f * BytesPerFrame(kd) + i * 4 + k + 1]

\* the last poll carried a controller read on channel i and the callback wrote
\* the four response bytes
ReadAnswered(i) ==
    /\ pif_in[i].tx /\ pif_in[i].rx /\ pif_in[i].rx_buf
    /\ pif_in[i].cmd = JCMD_CONTROLLER_READ
    /\ \A k \in 0..3 : pif_out[i].rx_buf[k] # Untouched

\* channel i holds player i's word of Timeline frame f, most significant byte
\* of the 32-bit word first (the word is read from the log in host order)
Served(i, f) ==
    /\ f >= 0
    /\ f < TimelineFrames(s_krec)
    /\ \A k \in 0..3 : pif_out[i].rx_buf[k] = FrameByte(s_krec, f, i, 3 - k)

PlayerChannels == {i \in 0..3 : i < ClampPlayers(s_krec.num_players)}

\* C26: every controller read answered within a tick on the channel of a
\* player receives that player's word of the Timeline frame consumed in that
\* tick, most significant byte first
C26_ServesTickFrame ==
    (s_krec # NoKrec /\ twin.polled /\ pollsThisTick >= 1) =>
        \A i \in PlayerChannels :
            ReadAnswered(i) =>
                /\ s_input_frame_index = idxAtReset + 1
                /\ Served(i, idxAtReset)

\* what holds in every state: an answered controller read receives the word
\* of the frame consumed last, and once the tick has consumed its frame it is
\* the word of that frame
ServesLatestFrame ==
    (s_krec # NoKrec /\ twin.polled) =>
        \A i \in PlayerChannels :
            ReadAnswered(i) =>
                /\ s_input_frame_index >= 1
                /\ Served(i, s_input_frame_index - 1)
                /\ (s_synced_this_frame /\ pollsThisTick >= 1) =>
                       /\ s_input_frame_index = idxAtReset + 1
                       /\ Served(i, idxAtReset)

\* two polls of a tick that has consumed its frame answer a channel alike
SameBytesAfterConsume ==
    (s_krec # NoKrec /\ s_krec' = s_krec /\ s_synced_this_frame /\ s_synced_this_frame'
        /\ pollsThisTick >= 1 /\ pollsThisTick' > 1) =>
        \A i \in PlayerChannels :
            (ReadAnswered(i) /\ ReadAnswered(i)') => pif_out'[i].rx_buf = pif_out[i].rx_buf

C26_ServesLatestFrame == []ServesLatestFrame /\ [][SameBytesAfterConsume]_vars

\* the second tick has consumed frame 1 and a later poll of the tick has
\* answered player 1 with it
C26_Witness ==
    /\ s_krec # NoKrec
    /\ twin.polled
    /\ pollsThisTick >= 2
    /\ s_synced_this_frame
    /\ s_input_frame_index = 2
    /\ idxAtReset = 1
    /\ 1 \in PlayerChannels
    /\ ReadAnswered(1)
    /\ Served(1, 1)

----------------------------------------------------------------------------
(* Polls that are not controller reads *)

\* the step is a call of pif_replay_callback
PollStep == pollsThisTick' >= 1

\* a poll whose channel 0 is not a controller read leaves the statics alone
NonReadKeepsState ==
    (PollStep /\ ~IsControllerRead(pif_in')) =>
        /\ s_input_frame_index' = s_input_frame_index
        /\ s_synced_this_frame' = s_synced_this_frame
        /\ s_cached_input' = s_cached_input
        /\ s_cached_num_players' = s_cached_num_players
        /\ s_replay_finished' = s_replay_finished
        /\ consumed' = consumed

\* the last poll carried a pak command on channel i, with the buffers a
\* controller channel has
PakAsked(i) ==
    /\ pif_in[i].tx /\ pif_in[i].rx /\ pif_in[i].rx_buf
    /\ pif_in[i].cmd \in {JCMD_PAK_READ, JCMD_PAK_WRITE}

\* channel i holds the no-pak byte where the command expects its status
PakAnswered(i) ==
    /\ pif_in[i].cmd = JCMD_PAK_READ => pif_out[i].rx_buf[32] = 255
    /\ pif_in[i].cmd = JCMD_PAK_WRITE => pif_out[i].rx_buf[0] = 255

\* C27: a call of pif_replay_callback whose channel 0 does not carry a
\* controller read leaves s_input_frame_index, s_synced_this_frame,
\* s_cached_input and s_replay_finished unchanged, and the pak reads and pak
\* writes of such a call are answered with the no-pak byte 255
C27_NonReadPoll ==
    /\ [][NonReadKeepsState]_vars
    /\ []((s_krec # NoKrec /\ twin.polled /\ ~IsControllerRead(pif_in)) =>
            \A i \in PlayerChannels : PakAsked(i) => PakAnswered(i))

\* the same statement for calls made before the replay has finished
C27_NonReadPollWhileRunning ==
    /\ [][NonReadKeepsState]_vars
    /\ []((s_krec # NoKrec /\ twin.polled /\ ~IsControllerRead(pif_in)
              /\ ~s_replay_finished) =>
            \A i \in PlayerChannels : PakAsked(i) => PakAnswered(i))

----------------------------------------------------------------------------
(* The size of a Timeline frame *)

\* frame i (0-based) of the parsed Timeline, as the synchronizer indexes it
ParsedFrame(i) ==
    SubSeq(parsed.input_data, i * BytesPerFrame(parsed) + 1, (i + 1) * BytesPerFrame(parsed))

\* the frame input record j stands for
RecordFrame(j) ==
    IF recorded.records[j] = <<>> THEN Zeros(BytesPerFrame(parsed)) ELSE recorded.records[j]

FixedFrameSize ==
    /\ Len(parsed.input_data) = parsed.total_input_frames * BytesPerFrame(parsed)
    /\ parsed.total_input_frames = Len(recorded.records)
    /\ \A i \in 0..(parsed.total_input_frames - 1) : ParsedFrame(i) = RecordFrame(i + 1)

\* every input record of the log is empty or carries playerCount words
RecordsFitPlayers ==
    \A j \in 1..Len(recorded.records) :
        Len(recorded.records[j]) \in {0, ClampPlayers(file.num_players) * 4}

\* C28: for any log krec_parse accepts, input_data holds total_input_frames
\* frames of playerCount*4 bytes each, and the frame at index i is the i-th
\* input record of the log
C28_FixedFrameSize ==
    (parsed.stage = "done" /\ parsed.ok) => FixedFrameSize

\* the same statement for logs whose input records carry playerCount words
C28_FixedFrameSizeFittingRecords ==
    (parsed.stage = "done" /\ parsed.ok /\ RecordsFitPlayers) => FixedFrameSize

----------------------------------------------------------------------------
(* The player count of the parser and of the synchronizer *)

\* the synchronizer can read exactly the frames the parser counted
IndexedAsBuilt ==
    /\ Len(parsed.input_data) = parsed.total_input_frames * BytesPerFrame(parsed)
    /\ TimelineFrames(parsed) = parsed.total_input_frames
    /\ \A i \in 0..(parsed.total_input_frames - 1) : HasInputFrame(parsed, i)
    /\ ~HasInputFrame(parsed, parsed.total_input_frames)

\* C29: for every num_players in the header, below 1, in 1..4 or above 4, the
\* parser builds the Timeline with the bytes-per-frame the synchronizer
\* indexes it with, clamp(num_players, 1, 4) * 4, and whether krec_parse
\* succeeds does not depend on num_players
C29_SamePlayerCount ==
    parsed.stage = "done" =>
        /\ parsed.ok <=> (~TooShort(file) /\ file.magic \in {"KRC1", "KRC0"})
        /\ parsed.ok =>
              /\ parsed.num_players = file.num_players
              /\ ParserPlayers(parsed.num_players) * 4 = BytesPerFrame(parsed)
              /\ IndexedAsBuilt

\* a log with num_players = 5, delay records and input records has been parsed
C29_Witness ==
    /\ parsed.stage = "done"
    /\ parsed.ok
    /\ file.num_players = 5
    /\ recorded.delays >= 1
    /\ parsed.delay_frames >= 1
    /\ parsed.total_input_frames > parsed.delay_frames

----------------------------------------------------------------------------
(* The vertical flip *)

\* byte x of row r of a frame of the given stride
RowByte(frame, stride, r, x) == frame[r * stride + x + 1]

\* frame b is frame a upside down, each row byte for byte
UpsideDown(a, b, width, height) ==
    /\ Len(b) = FrameSize(width, height)
    /\ \A r \in 0..(height - 1) : \A x \in 0..(Stride(width) - 1) :
          RowByte(b, Stride(width), height - 1 - r, x) = RowByte(a, Stride(width), r, x)

\* C30: the flip of the worker and the flip of the fallback both put input row
\* r of a width x height RGB24 frame at output row height-1-r with the bytes
\* of the row unchanged, and a second flip gives back the original frame
C30_VerticalFlip ==
    /\ flip.stage \in {"worker", "fallback", "worker twice", "fallback twice"} =>
           UpsideDown(flip.src, flip.out, flip.width, flip.height)
    /\ flip.stage \in {"worker twice", "fallback twice"} => flip.back = flip.src

\* the largest frame, flipped twice by the worker over a longer old buffer
C30_Witness ==
    /\ flip.stage = "worker twice"
    /\ flip.width = MaxFlipWidth
    /\ flip.height = MaxFlipHeight
    /\ Len(flip.buf) > FrameSize(flip.width, flip.height)
    /\ flip.out # flip.src
    /\ flip.back = flip.src


----------------------------------------------------------------------------
(* one encode worker at a time, also from one session to the next *)

\* init_pbos runs in this step: start_encode_thread is executed
StartsWorker == ~s_pbo_initialized /\ s_pbo_initialized'

\* C31: at most one encode worker thread exists at any time, also across the
\* consecutive sessions of one process: start_encode_thread is never executed
\* while a worker started before has not been joined
C31_OneWorker == [][StartsWorker => ~Joinable(wpc)]_vars

\* convert_one has returned and left a worker that nothing joined
WorkerUnjoinedAtReturn == mainpc = "done" /\ Joinable(wpc)

----------------------------------------------------------------------------
(* the frame count convert_one reads *)

\* convert_one has read frame_capture_count() (line 1464)
CountRead == emulationRan /\ mainpc \in {"close", "shutdown", "after", "mux", "done"}

\* the count convert_one holds is the number of write_frame calls of the session
\* and of frames the encoder took, and the worker has nothing left to write or count
CountIsFinal ==
    /\ frames_captured = s_captured_frames
    /\ frames_captured = WriteCalls
    /\ frames_captured = Len(encStream)
    /\ ~WriteAhead
    /\ wpc # "count"

\* C32: the frame count convert_one reads through frame_capture_count() after
\* emu.execute() has returned is the final number of frames written to the
\* encoder in the session: after that read the worker writes no frame and does
\* not increment s_captured_frames
C32_CountIsFinal == CountRead => CountIsFinal

\* the same statement for sessions on the synchronous fallback, where the
\* callback writes and counts each frame itself
C32_CountIsFinalFallback == (~pboAvail /\ CountRead) => CountIsFinal

\* a fallback session that wrote frames and whose count has been read
C32_FallbackWitness == ~pboAvail /\ CountRead /\ frames_captured >= 2


----------------------------------------------------------------------------
(* The frame index of the synchronizer *)

\* 0 <= s_input_frame_index <= whole frames of input_data
IndexInRange ==
    /\ 0 <= s_input_frame_index
    /\ s_krec # NoKrec => s_input_frame_index <= TimelineFrames(s_krec)

\* the step is a call of pif_replay_init
ReplayInitStep == consumed' = <<>> /\ pollsThisTick' = 0 /\ idxAtReset' = 0

\* within a session the index never decreases
IndexMonotone == s_input_frame_index' < s_input_frame_index => ReplayInitStep

\* the step is a poll that consumes: the replay is running, channel 0 carries a
\* controller read and no poll of this tick has consumed before
ConsumingPoll ==
    /\ PollStep
    /\ twin'.polled
    /\ pif_in' \in PifInputs
    /\ ~ReplayIdle(ReplayState)
    /\ ConsumeGuard(ReplayState, pif_in')
    /\ s_synced_this_frame'

\* finished becomes set in exactly the consuming polls that find the index at
\* the number of whole frames
FinishedByLastPoll ==
    (~s_replay_finished /\ s_replay_finished') <=>
        (ConsumingPoll /\ s_input_frame_index = TimelineFrames(s_krec))

\* every frame read lies inside input_data
ReadsInside ==
    \A i \in 1..Len(consumed) :
        (consumed[i] + 1) * BytesPerFrame(s_krec) <= Len(s_krec.input_data)

\* C33: 0 <= currentFrameIndex <= the number of whole frames in input_data in
\* every reachable state; within a session the index never decreases, finished
\* is set exactly by the first consuming poll that finds the index equal to
\* that number, and no frame is read beyond the end of input_data
C33_IndexBounds ==
    /\ [](IndexInRange /\ ReadsInside /\ (s_replay_finished => s_input_frame_index = TimelineFrames(s_krec)))
    /\ [][IndexMonotone /\ FinishedByLastPoll]_vars

\* a Timeline with a partial frame at its end has been replayed to its end
C33_Witness ==
    /\ s_krec # NoKrec
    /\ s_replay_finished
    /\ Len(s_krec.input_data) = MaxFrames * BytesPerFrame(s_krec) + TailBytes
    /\ s_input_frame_index = MaxFrames


----------------------------------------------------------------------------
(* Progress against the length of the Timeline *)

\* every per-frame progress call made so far has 1 <= current
ProgressFromOne == \A i \in 1..Len(FrameProgress) : 1 <= FrameProgress[i]

\* every per-frame progress call made so far has current <= total, where total
\* is s_total_frames, the Timeline's total_input_frames
ProgressWithinTotal == \A i \in 1..Len(FrameProgress) : FrameProgress[i] <= s_total_frames

\* the session has not captured more frames than the Timeline has
CapturedWithinTimeline ==
    emulationRan => (s_total_frames = krec.total_input_frames
                     /\ s_captured_frames <= s_total_frames)

\* C34: every per-frame progress call has 1 <= current <= total, total being
\* the Timeline's total_input_frames: the number of captured frames never
\* exceeds the number of Timeline frames, however frame callbacks and polls
\* interleave
C34_ProgressWithinTotal ==
    /\ ProgressFromOne
    /\ ProgressWithinTotal
    /\ CapturedWithinTimeline

\* the lower bound alone, and the total passed being the Timeline's length
C34_ProgressFromOne ==
    /\ ProgressFromOne
    /\ emulationRan => s_total_frames = krec.total_input_frames


----------------------------------------------------------------------------
(* What convert_one returns and leaves behind *)

\* convert_one has returned after running the emulation
ReturnedAfterRun == mainpc = "done" /\ emulationRan

C35_WitnessNoAudio ==
    /\ ReturnedAfterRun
    /\ frames_captured >= 1
    /\ audio_bytes = 0
    /\ result = "true"
    /\ outputHolds = "video"


\* C36: after convert_one has returned from any path that ran the emulation
\* (success, cancellation, zero frames captured, mux failure) neither temporary
\* file remains
C36_NoTempFilesLeft == ReturnedAfterRun => (~tempVideo /\ ~tempAudio)

\* both temporary files had been created and the session was discarded
C36_Witness ==
    /\ ReturnedAfterRun
    /\ result = "false"
    /\ s_encoder_opened
    /\ audio_bytes > 0
    /\ ~tempVideo
    /\ ~tempAudio


----------------------------------------------------------------------------
(* Emulator::shutdown *)

\* the step calls Emulator::shutdown
ShutdownStep == emuShutdowns' = emuShutdowns + 1

\* shutdown is called from convert_one only, never while emu.execute() runs
ShutdownAfterStop ==
    ShutdownStep =>
        /\ mainpc \in {"rom", "attach", "shutdown"}
        /\ emulationRan => (stopRequested /\ mainpc = "shutdown")

\* C37: every emulator convert_one started is shut down before it returns: on
\* each path on which Emulator::init was called and either succeeded or failed
\* with the core library loaded and started, Emulator::shutdown runs exactly
\* once, after the emulation has stopped
C37_ShutdownOnce ==
    /\ [](mainpc = "done" => (~coreStarted /\ emuShutdowns <= 1))
    /\ [](coreStarted => emuShutdowns = 0)
    /\ [][ShutdownAfterStop]_vars

\* the same statement for the paths on which Emulator::init succeeded
InitSucceeded == mainpc \notin {"entry", "parse", "init"} /\ (mainpc = "done" => emuShutdowns >= 1)

C37_ShutdownOnceInitOk ==
    /\ [](InitSucceeded =>
            /\ emuShutdowns <= 1
            /\ coreStarted <=> emuShutdowns = 0
            /\ mainpc = "done" => (~coreStarted /\ emuShutdowns = 1))
    /\ [][ShutdownAfterStop]_vars

\* the emulation ran and the emulator was shut down once
C37_WitnessInitOk ==
    /\ ReturnedAfterRun
    /\ emuShutdowns = 1
    /\ ~coreStarted


----------------------------------------------------------------------------
(* Returns before the emulator is set up *)

\* the step returns false with the emulator not initialised, the replay and
\* capture statics as they were, and no temporary file
ReturnsUntouched ==
    /\ mainpc' = "done"
    /\ result' = "false"
    /\ ~coreStarted' /\ emuShutdowns' = 0
    /\ ~emulationRan'
    /\ UNCHANGED <<s_krec, s_input_frame_index, s_synced_this_frame, s_replay_finished,
                   s_cached_input, s_cached_num_players>>
    /\ UNCHANGED captureVars
    /\ ~tempVideo' /\ ~tempAudio' /\ ~outputFile'

\* convert_one is entered with the cancel flag set
EntryCancelled == mainpc = "entry" /\ mainpc' # "entry" /\ frontend = "gui" /\ cancel_flag

\* krec_parse returns a log of zero input frames
ParsedEmpty ==
    /\ mainpc = "parse" /\ mainpc' # "parse"
    /\ krec' # NoKrec
    /\ krec'.total_input_frames = 0

\* C38: a log that parses to zero input frames, and a cancel flag already set
\* at entry, each make convert_one return false before the emulator is
\* initialised, before the replay and capture state are reset and before any
\* temporary file is created
C38_EarlyReturns ==
    /\ [][EntryCancelled => ReturnsUntouched]_vars
    /\ [][ParsedEmpty => ReturnsUntouched]_vars
    /\ [](mainpc \in {"entry", "parse"} =>
            (~coreStarted /\ ~emulationRan /\ ~tempVideo /\ ~tempAudio))

\* a log of zero input frames was parsed and convert_one has returned false
C38_Witness ==
    /\ mainpc = "done"
    /\ krec # NoKrec
    /\ krec.total_input_frames = 0
    /\ result = "false"
    /\ ~emulationRan

\* the cancel flag was set when convert_one was entered
C38_WitnessCancel ==
    /\ mainpc = "done"
    /\ krec = NoKrec
    /\ cancel_flag
    /\ cancelAtCb = 0
    /\ result = "false"


=============================================================================
